---- MODULE Spec2Model ----
(***************************************************************************)
(* A model of PM_Helper: the orchestrator mini_pm.run_all, its step        *)
(* runners, the severity classifiers and the spreadsheet writer, with the  *)
(* checks' printed reports they read.                                      *)
(*                                                                         *)
(* Texts.  A text is a sequence of lines and a line is a sequence of       *)
(* tokens.  A token is a record [w, n, sp]: w is the word (or "#" for a    *)
(* number, whose value n is kept in hundredths), and sp tells whether      *)
(* white space precedes the token in the text.  The markers the code       *)
(* prints are written FAIL (the cross mark), PASS (the check mark) and     *)
(* WARN (the warning sign).  A phrase that no pattern of the code can cut  *)
(* is kept as one token.                                                   *)
(***************************************************************************)
EXTENDS Integers, Sequences, FiniteSets, TLC

VARIABLES
    pc,                \* position of run_all: "start", a step name, "rows", "write", "done", "nodb", "aborted"
    mods,              \* the helper modules that were importable (mini_pm.py:12-21)
    db_dirs,           \* list_database_dirs(first_level), in the order of enumeration
    di,                \* index in db_dirs of the collection being processed
    cfg_text, cfg_sev,
    awr_selected, awr_text, awr_sev,
    ts_text, ts_items,
    alert_csv_or_msg, a_sev,
    backup_text, b_sev,
    excel_rows,        \* the rows run_all has appended
    summary_lines,     \* the summary report's lines, abstracted to the collection names added
    files,             \* the files written under report_root: set of [dir, name, top, mins, head]
    sheet,             \* the spreadsheet written by _write_excel: [written, rows, sysmerge, dbmerge]
    steplog,           \* history: the steps executed so far, [db, step, kind, sev, pdbs]
    faults,            \* number of non-regular step inputs drawn so far
    probe              \* the classifier experiment: [item, src, inp, text, sev, status, label]

vars == << pc, mods, db_dirs, di, cfg_text, cfg_sev, awr_selected, awr_text, awr_sev,
           ts_text, ts_items, alert_csv_or_msg, a_sev, backup_text, b_sev,
           excel_rows, summary_lines, files, sheet, steplog, faults, probe >>

-----------------------------------------------------------------------------
(* Bounds *)

\* fixed-point scale of the numbers in a text ({pct:.2f})
Scale == 100
\* collections of one run
MaxDbs == 2
\* tablespace_*.txt files of one collection
MaxPdbs == 2
\* steps of one run that draw an input other than the regular one
MaxFaults == 2
\* lines of a free text given to a classifier
MaxLines == 2
\* data rows of a tablespace report, events of a top-10 table
MaxRows == 2
\* rows of an instance-efficiency table
MaxEff == 1
\* *.html reports in one report folder
MaxHtmls == 4
\* lines of an alert log
MaxLog == 4
\* entries of the root folder
MaxEntries == 2
\* subdirectories of a child of the root
MaxKids == 2
\* words of the Controlfile section, and of the rest of a dump
MaxWords == 2
\* clicks on the Run button
MaxClicks == 4

-----------------------------------------------------------------------------
(* Tokens and texts *)

FAIL == "[X]"
PASS == "[OK]"
WARN == "[!]"
SEP  == "===="

T(s)    == [w |-> s, n |-> 0, sp |-> TRUE]
G(s)    == [w |-> s, n |-> 0, sp |-> FALSE]
Num(x)  == [w |-> "#", n |-> x, sp |-> TRUE]
GNum(x) == [w |-> "#", n |-> x, sp |-> FALSE]
IsNum(t) == t.w = "#"

\* str.lower() on the words the patterns of the code look for
Lower(s) ==
    CASE s = "Control"    -> "control"
      [] s = "File"       -> "file"
      [] s = "Redo"       -> "redo"
      [] s = "Patches"    -> "patches"
      [] s = "Concerning" -> "concerning"
      [] s = "SQL"        -> "sql"
      [] s = "DB"         -> "db"
      [] s = "Time"       -> "time"
      [] s = "Hit"        -> "hit"
      [] s = "Ratio"      -> "ratio"
      [] s = "Less"       -> "less"
      [] s = "Than"       -> "than"
      [] OTHER            -> s

RECURSIVE Flatten(_)
\* the text as one run of tokens; a line break is white space
Flatten(text) ==
    IF text = << >> THEN << >>
    ELSE LET l == Head(text)
             h == IF l = << >> THEN << >> ELSE << [Head(l) EXCEPT !.sp = TRUE] >> \o Tail(l)
         IN  h \o Flatten(Tail(text))

\* the lines ln of a text with ln.strip() non-empty
NonBlank(text) == SelectSeq(text, LAMBDA l : l # << >>)

\* text.strip(): leading and trailing blank lines dropped
RECURSIVE LStrip(_)
LStrip(text) ==
    IF text = << >> THEN << >>
    ELSE IF Head(text) = << >> THEN LStrip(Tail(text)) ELSE text
RECURSIVE RStrip(_)
RStrip(text) ==
    IF text = << >> THEN << >>
    ELSE IF text[Len(text)] = << >> THEN RStrip(SubSeq(text, 1, Len(text) - 1)) ELSE text
Strip(text) == RStrip(LStrip(text))

\* "marker" in text
HasWord(text, word) == \E i \in 1..Len(text) : \E j \in 1..Len(text[i]) : text[i][j].w = word

\* a pattern is a sequence of [ws, sp]: the token's lower-cased word is in ws, and
\* sp is "yes" (white space before it), "no" (glued) or "any"; the first element's
\* sp is not looked at
MatchAt(toks, i, pat) ==
    /\ i + Len(pat) - 1 <= Len(toks)
    /\ \A k \in 1..Len(pat) :
          LET t == toks[i + k - 1] IN
          /\ Lower(t.w) \in pat[k].ws
          /\ k > 1 => \/ pat[k].sp = "any"
                      \/ pat[k].sp = "yes" /\ t.sp
                      \/ pat[k].sp = "no" /\ ~t.sp
\* a substring test that cannot span a line break
LineHas(text, pat) ==
    \E i \in 1..Len(text) : \E j \in 1..Len(text[i]) : MatchAt(text[i], j, pat)

Min(S) == CHOOSE x \in S : \A y \in S : x <= y

-----------------------------------------------------------------------------
(* Severity engine, mini_pm.py:122-193 *)

SEV_LABEL(n) ==
    CASE n = 1 -> "Severity 1 (urgent)"
      [] n = 2 -> "Severity 2 (high)"
      [] n = 3 -> "Severity 3 (medium)"
      [] n = 4 -> "Severity 4 (low)"

\* _status_from_sev with > in place of >=
_status_from_sev_lt(n) == IF n > 4 THEN "Normal" ELSE "Attention"
_status_from_sev(n) == IF n >= 4 THEN "Normal" ELSE "Attention"

_sev_label(n) == IF n \in 1..4 THEN SEV_LABEL(n) ELSE "Severity 4 (low)"

\* lines with ln.strip() and no "====" in them, the first max_lines of them
_desc_lines_from(text, max_lines) ==
    LET lines == SelectSeq(text, LAMBDA l : l # << >> /\ ~(\E j \in 1..Len(l) : l[j].w = SEP))
    IN  SubSeq(lines, 1, IF Len(lines) < max_lines THEN Len(lines) ELSE max_lines)

RedoWords == {"redo", "redolog", "redologs"}

\* severity_config returning 1 as soon as one of the two redundancy lines is bad
severity_config_either(text) ==
    LET bad_ctrl == LineHas(text, << [ws |-> {FAIL}, sp |-> "any"],
                                     [ws |-> {"control"}, sp |-> "yes"],
                                     [ws |-> {"file", "files"}, sp |-> "yes"] >>)
        bad_redo == LineHas(text, << [ws |-> {FAIL}, sp |-> "any"],
                                     [ws |-> RedoWords, sp |-> "yes"] >>)
    IN  IF bad_ctrl \/ bad_redo THEN 1 ELSE 4

severity_config(text) ==
    LET bad_ctrl == LineHas(text, << [ws |-> {FAIL}, sp |-> "any"],
                                     [ws |-> {"control"}, sp |-> "yes"],
                                     [ws |-> {"file", "files"}, sp |-> "yes"] >>)
        bad_redo == LineHas(text, << [ws |-> {FAIL}, sp |-> "any"],
                                     [ws |-> RedoWords, sp |-> "yes"] >>)
    IN  IF bad_ctrl /\ bad_redo THEN 1
        ELSE IF bad_ctrl \/ bad_redo THEN 2
        ELSE IF LineHas(text, << [ws |-> {FAIL}, sp |-> "any"],
                                 [ws |-> {"patches"}, sp |-> "yes"] >>) THEN 4
        ELSE 4

\* the positions j of a number with "%" glued to it, then DB, then Time
PctDbTimeAt(l, j) ==
    /\ j + 3 <= Len(l)
    /\ IsNum(l[j])
    /\ l[j + 1].w = "%" /\ ~l[j + 1].sp
    /\ Lower(l[j + 2].w) = "db"
    /\ Lower(l[j + 3].w) = "time"

\* re.search(FAIL .*? (number)% \s* DB \s* Time): "." does not match a line break, so
\* the match lies in one line; the leftmost match starts at the first FAIL of the
\* first line that has such a number after it, and takes the first such number
FirstFlaggedPct(text) ==
    LET good(l) == { j \in 1..Len(l) : PctDbTimeAt(l, j) /\ \E i \in 1..(j - 1) : l[i].w = FAIL }
        hit == { i \in 1..Len(text) : good(text[i]) # {} }
    IN  IF hit = {} THEN -1
        ELSE LET l == text[Min(hit)] IN l[Min(good(l))].n

\* re.finditer("Hit Ratio" .*? (number) \s* %) with DOTALL over the whole text: from each
\* "Hit Ratio" the nearest following number that has a "%" after it; the scan goes on
\* after that "%"
RECURSIVE HitLows(_, _)
HitLows(toks, from) ==
    LET starts == { i \in from..(Len(toks) - 1) :
                      /\ Lower(toks[i].w) = "hit"
                      /\ Lower(toks[i + 1].w) = "ratio" /\ toks[i + 1].sp }
    IN  IF starts = {} THEN << >>
        ELSE LET s == Min(starts)
                 nums == { j \in (s + 2)..(Len(toks) - 1) : IsNum(toks[j]) /\ toks[j + 1].w = "%" }
             IN  IF nums = {} THEN << >>
                 ELSE << toks[Min(nums)].n >> \o HitLows(toks, Min(nums) + 2)

SeqMin(s) == Min({ s[i] : i \in 1..Len(s) })

severity_awr(text) ==
    LET pct  == FirstFlaggedPct(text)
        lows == HitLows(Flatten(text), 1)
    IN  IF ~HasWord(text, FAIL) THEN 4
        ELSE IF pct >= 50 * Scale THEN 2
        ELSE IF pct >= 20 * Scale THEN 3
        ELSE IF lows # << >> /\ SeqMin(lows) < 50 * Scale THEN 3
        ELSE IF LineHas(text, << [ws |-> {FAIL}, sp |-> "any"],
                                 [ws |-> {"concerning"}, sp |-> "no"],
                                 [ws |-> {"running"}, sp |-> "yes"],
                                 [ws |-> {"sql"}, sp |-> "yes"] >>) THEN 3
        ELSE 4

\* re.search("less \s+ than \s+ (\d+) \s* %?"): the whole digits of the first number
\* that follows "less than"; -1 when there is no match
LessThanX(text) ==
    LET toks == Flatten(text)
        at == { i \in 1..(Len(toks) - 2) :
                  /\ Lower(toks[i].w) = "less"
                  /\ Lower(toks[i + 1].w) = "than" /\ toks[i + 1].sp
                  /\ IsNum(toks[i + 2]) /\ toks[i + 2].sp }
    IN  IF at = {} THEN -1 ELSE toks[Min(at) + 2].n \div Scale

\* severity_tablespace returning 4 when no number follows "less than"
severity_tablespace_lenient(item_text) ==
    LET x == LessThanX(item_text) IN
    IF ~HasWord(item_text, FAIL) THEN 4
    ELSE IF x >= 0 THEN (IF x < 5 THEN 1 ELSE IF x <= 10 THEN 2 ELSE 3)
    ELSE 4

severity_tablespace(item_text) ==
    LET x == LessThanX(item_text) IN
    IF ~HasWord(item_text, FAIL) THEN 4
    ELSE IF x >= 0 THEN (IF x < 5 THEN 1 ELSE IF x <= 10 THEN 2 ELSE IF x <= 15 THEN 3 ELSE 3)
    ELSE 3

S1 == {"ORA-00600", "ORA-07445"}
S2 == {"ORA-04031", "ORA-04030", "ORA-01652", "ORA-01654", "ORA-01628", "ORA-01578",
       "ORA-01157", "ORA-01110"}

\* severity_alert looking for the high-severity codes before the critical ones
severity_alert_high_first(alert_csv_text) ==
    LET rows == NonBlank(alert_csv_text) IN
    IF rows = << >> THEN 4
    ELSE IF rows[1][1].w = FAIL THEN 2
    ELSE IF Len(rows) <= 1 THEN 4
    ELSE IF \E c \in S2 : HasWord(Tail(rows), c) THEN 2
    ELSE IF \E c \in S1 : HasWord(Tail(rows), c) THEN 1
    ELSE 3

\* severity_alert counting the header line as a row
severity_alert_header(alert_csv_text) ==
    LET rows == NonBlank(alert_csv_text) IN
    IF rows = << >> THEN 4
    ELSE IF rows[1][1].w = FAIL THEN 2
    ELSE IF Len(rows) < 1 THEN 4
    ELSE IF \E c \in S1 : HasWord(Tail(rows), c) THEN 1
    ELSE IF \E c \in S2 : HasWord(Tail(rows), c) THEN 2
    ELSE 3

severity_alert(alert_csv_text) ==
    LET rows == NonBlank(alert_csv_text) IN
    IF rows = << >> THEN 4
    ELSE IF rows[1][1].w = FAIL THEN 2
    ELSE IF Len(rows) <= 1 THEN 4
    ELSE IF \E c \in S1 : HasWord(Tail(rows), c) THEN 1
    ELSE IF \E c \in S2 : HasWord(Tail(rows), c) THEN 2
    ELSE 3

\* severity_backup asking for more than three failed lines before it returns 1
severity_backup_gt(text) ==
    LET lines == NonBlank(text)
        bad == Cardinality({ i \in 1..Len(lines) : lines[i][1].w = FAIL })
    IN  IF lines = << >> THEN 4
        ELSE IF bad > 3 THEN 1
        ELSE IF bad >= 1 THEN 2
        ELSE 4

severity_backup(text) ==
    LET lines == NonBlank(text)
        bad == Cardinality({ i \in 1..Len(lines) : lines[i][1].w = FAIL })
    IN  IF lines = << >> THEN 4
        ELSE IF bad >= 3 THEN 1
        ELSE IF bad >= 1 THEN 2
        ELSE 4

-----------------------------------------------------------------------------
(* config_check.py: the report check_oracle_config prints.  The dump is the   *)
(* record [ver, paths, groups]: the (major, minor) of the version found or    *)
(* NoVer, the number of distinct control-file paths found, and the number of  *)
(* distinct redo log groups found.                                            *)

NoVer == << >>
TargetMM == << 19, 27 >>

\* A dotted number is the sequence of its components.  The version found in the dump
\* is one of two to five components or NoVer; the target string is [nums, tail], its
\* first numeric token (NoVer when it has none) and the text that follows it.

\* _major_minor_tuple_from_str comparing the major component alone
_major_minor_tuple_from_str_major(parts) == << parts[1], 0 >>

\* _major_minor_tuple_from_str, lines 52-56
_major_minor_tuple_from_str(parts) ==
    IF Len(parts) = 1 THEN << parts[1], 0 >> ELSE << parts[1], parts[2] >>

\* _parse_target_version_input, lines 58-69: the (major, minor) of the target, or NoVer
_parse_target_version_input(target) ==
    IF target.nums = NoVer THEN NoVer ELSE _major_minor_tuple_from_str(target.nums)

_check_controlfile_redundancy(paths) ==
    IF paths >= 2 THEN << T(PASS), T("Control"), T("file"), G(":"), T("Redundancy") >>
    ELSE IF paths = 1 THEN << T(FAIL), T("Control"), T("file"), G(":"), T("non Redundancy") >>
    ELSE << T(FAIL), T("Control"), T("file"), G(":"), T("section not found") >>

\* The control-file part of a dump is [section, rest]: the words of the delimited
\* Controlfile section (none when the dump has no such section) and the words of the
\* rest of the document, each a path +.../CONTROLFILE/... or another word.
IsCtlPath(w) == w \in {"+DATA/ORCL/CONTROLFILE/current.261", "+FRA/ORCL/CONTROLFILE/current.256"}

\* _controlfile_paths_from_control_section: the distinct paths of the section
_controlfile_paths_from_control_section(content) ==
    { content.section[i] : i \in { j \in 1..Len(content.section) : IsCtlPath(content.section[j]) } }

\* _controlfile_paths_fallback: the pattern's tail (?:\s+\S+)* is greedy and \s matches
\* line breaks, so the first match runs from the first path to the last word of the
\* document and no second match is left; its white space removed, it is one string,
\* written here as the sequence of the words it glues together
_controlfile_paths_fallback(content) ==
    LET doc == content.section \o content.rest
        at == { i \in 1..Len(doc) : IsCtlPath(doc[i]) }
    IN  IF at = {} THEN {}
        ELSE { SubSeq(doc, CHOOSE i \in at : \A j \in at : i <= j, Len(doc)) }

\* lines 91-93: the paths _check_controlfile_redundancy counts
controlfile_paths(content) ==
    IF _controlfile_paths_from_control_section(content) # {}
    THEN _controlfile_paths_from_control_section(content)
    ELSE _controlfile_paths_fallback(content)

_check_redo_redundancy(cnt) ==
    IF cnt > 1 THEN << T(PASS), T("Redo"), T("Logs"), G(":"), T("Redundancy") >>
    ELSE IF cnt = 1 THEN << T(FAIL), T("Redo"), T("Logs"), G(":"), T("non Redundancy") >>
    ELSE << T(FAIL), T("Redo"), T("Logs"), G(":"), T("section not found") >>

check_oracle_config(content, target_mm) ==
    << << T("Checking configuration against target version:"), T("<target>") >>,
       IF content.ver # NoVer /\ target_mm # NoVer
       THEN IF content.ver = target_mm
            THEN << T(PASS), T("Patches"), G(":"), T("Up to date") >>
            ELSE << T(FAIL), T("Patches"), G(":"),
                    T("Recommend applying the Database Release Update (DBRU) to version"),
                    T("<target>") >>
       ELSE << T(FAIL), T("Patches"), G(":"), T("Unable to determine versions for comparison") >>,
       _check_controlfile_redundancy(content.paths),
       _check_redo_redundancy(content.groups) >>

\* lines 153-163: the Patches line check_oracle_config prints for the version found in
\* the dump and the target string
patches_line(file_ver_full, target) ==
    check_oracle_config(
        [ver |-> IF file_ver_full = NoVer THEN NoVer
                 ELSE _major_minor_tuple_from_str(file_ver_full),
         paths |-> 2, groups |-> 2],
        _parse_target_version_input(target))[2]

-----------------------------------------------------------------------------
(* table_space_check.py: the data rows below the header are [name, pct], pct  *)
(* the PCT_FREE_OF_MAX value in hundredths, or NotNum when float() fails.     *)

NotNum == -1

RECURSIVE JoinFlagged(_)
\* ",".join(f"{name}({pct:.2f}%)" ...): nothing but a comma between the items
JoinFlagged(low) ==
    IF low = << >> THEN << >>
    ELSE << G(Head(low).name), G("("), GNum(Head(low).pct), G("%"), G(")") >>
         \o (IF Tail(low) = << >> THEN << >> ELSE << G(",") >>)
         \o JoinFlagged(Tail(low))

\* LowSpace with pct_free <= 15.0 in place of <
LowSpace_le(rows) == SelectSeq(rows, LAMBDA r : r.pct # NotNum /\ r.pct <= 15 * Scale)

LowSpace(rows) == SelectSeq(rows, LAMBDA r : r.pct # NotNum /\ r.pct < 15 * Scale)

check_tablespace_free_space(rows) ==
    LET low_space_tables == LowSpace(rows)
        formatted == JoinFlagged(low_space_tables)
    IN  IF low_space_tables # << >>
        THEN << << T(FAIL), [Head(formatted) EXCEPT !.sp = TRUE] >> \o Tail(formatted)
                \o << T("have"), T("less"), T("than"), Num(15 * Scale), G("%"), T("space left") >> >>
        ELSE << << T(PASS), T("All tablespaces have more than"), Num(15 * Scale), G("%"),
                   T("free space.") >> >>

-----------------------------------------------------------------------------
(* awr_analyzer.py: the analysis lines and print_report.  The parsed data is  *)
(* [raises, mins, eff, events, sql, sga, pga, thread]: raises tells that       *)
(* analyze() raised on the report; eff is a sequence of [metric, value],      *)
(* events a sequence of [event, pct], value and pct in hundredths or None;    *)
(* sql, sga, pga and thread are "none" (table not found), "ok" or "flag"      *)
(* (the analysis of the table found something).                               *)

None == -1
RAISE == << << T("<raise>") >> >>

HitPctMetrics == {"Buffer Hit %", "Library Hit %", "Latch Hit %", "Flash Cache Hit %"}
ParseToMetrics == {"Execute to Parse %", "Parse CPU to Parse Elapsd %"}
MetricWords(m) ==
    CASE m = "Buffer Hit %"      -> << T("Buffer"), T("Hit"), T("%") >>
      [] m = "Library Hit %"     -> << T("Library"), T("Hit"), T("%") >>
      [] m = "Latch Hit %"       -> << T("Latch"), T("Hit"), T("%") >>
      [] m = "Flash Cache Hit %" -> << T("Flash Cache"), T("Hit"), T("%") >>
      [] m = "Execute to Parse %" -> << T("Execute to Parse"), T("%") >>
      [] m = "Parse CPU to Parse Elapsd %" -> << T("Parse CPU to Parse Elapsd"), T("%") >>
      [] OTHER -> << T(m) >>

RECURSIVE JoinWarnings(_)
\* ", ".join(warnings)
JoinWarnings(ws) ==
    IF ws = << >> THEN << >>
    ELSE Head(ws) \o (IF Tail(ws) = << >> THEN << >> ELSE << G(",") >>) \o JoinWarnings(Tail(ws))

analyze_instance_efficiency(data) ==
    LET warn(e) == /\ e.metric # "Flash Cache Hit %"
                   /\ e.metric \in HitPctMetrics \cup ParseToMetrics
                   /\ e.value # None /\ e.value < 70 * Scale
        flagged == SelectSeq(data, warn)
        warnings == [ i \in 1..Len(flagged) |->
                        MetricWords(flagged[i].metric) \o << G(":"), Num(flagged[i].value) >> ]
    IN  IF warnings # << >>
        THEN << T(FAIL), T("Hit"), T("Ratio"), G(":") >> \o JoinWarnings(warnings)
        ELSE << T(PASS), T("Hit"), T("Ratio"), G(":"), T("All statistics more than"),
                Num(70 * Scale), G("%"), T("or follow the same trend") >>

\* f"{pct:.1f}": one decimal
Round1(x) == ((x + 5) \div 10) * 10

NoWaitLine == << T(PASS), T("Wait event: No concerning wait event with significant DB time") >>

analyze_top10_foreground_events(data, db_time_minutes) ==
    LET cpu == { i \in 1..Len(data) : data[i].event = "DB CPU" }
        db_cpu_time == IF cpu = {} THEN 0 ELSE data[Min(cpu)].pct
        cand == SelectSeq(data, LAMBDA r : r.event # "DB CPU" /\ r.pct # None)
        flagged == SelectSeq(cand, LAMBDA r : r.pct > db_cpu_time)
        warnings == [ i \in 1..Len(flagged) |->
                        << T(flagged[i].event), G(":"), Num(Round1(flagged[i].pct)), G("%"),
                           T("DB"), T("Time") >> ]
    IN  IF db_time_minutes < 50 * Scale THEN NoWaitLine
        \* a number compared with the None of a DB CPU row raises TypeError
        ELSE IF db_cpu_time = None /\ cand # << >> THEN RAISE[1]
        ELSE IF warnings # << >> THEN << T(FAIL) >> \o JoinWarnings(warnings)
        ELSE NoWaitLine

analyze_sql_ordered_by_elapsed(data) ==
    IF data = "flag"
    THEN << T(FAIL), G("Concerning"), T("running"), T("SQL"),
            T("with significant running time or wait"), T("sql_id:"), G("<ids>") >>
    ELSE << T(PASS), T("Top Running SQL: There is no concerning running SQL") >>

analyze_sga_advisory(data) ==
    IF data = "flag" THEN << T(FAIL), G("Recommend to increase size"), T("<sizes>") >>
    ELSE << T(PASS), T("SGA Advisor: Appropriate DB time and physical read") >>

analyze_pga_advisory(data) ==
    IF data = "flag" THEN << T(FAIL), T("PGA Advisor: Recommend to increase size"), T("<sizes>") >>
    ELSE << T(PASS), T("PGA Advisor: Appropriate DB time and physical read") >>

analyze_thread_activity(data) ==
    IF data = "flag"
    THEN << T(FAIL), T("Redo"), T("Log switch: Redo log switch more than 4 times per hour") >>
    ELSE << T(PASS), T("Redo"), T("Log switch: Redo log switches are within normal range") >>

\* The rows of the PGA advisory table are [factor, extra, size]: what _num reads in the
\* cells Size Factr (in hundredths), Estd Extra W/A MB Read/ Written to Disk and PGA
\* Target Est (MB), None when it reads no number.  The outcome of analyze_pga_advisory
\* on them, lines 493-525: "ok", "flag", or "raise" when an operation on None raises
\* TypeError (the product of line 505, the formats of line 522).
pga_advisory_kind(data) ==
    LET ones(i) == { j \in 1..i : data[j].factor = 100 }
        current(i) == CHOOSE j \in ones(i) : \A k \in ones(i) : k <= j
        live(i) == /\ data[i].factor # None /\ data[i].factor > 100
                   /\ data[i].extra # None /\ ones(i) # {}
        raising(i) == live(i) /\ data[current(i)].extra = None
        \* improvement > 0 and current_extra_mb - est_extra_mb >= improvement, the
        \* improvement being current_extra_mb * 1.5 * (size_factor - 1.0)
        hit(i) == /\ live(i) /\ ~raising(i)
                  /\ 3 * data[current(i)].extra * (data[i].factor - 100) > 0
                  /\ 200 * (data[current(i)].extra - data[i].extra)
                        >= 3 * data[current(i)].extra * (data[i].factor - 100)
        stops == { i \in 1..Len(data) : raising(i) \/ hit(i) }
        stop == CHOOSE i \in stops : \A k \in stops : i <= k
    IN  IF stops = {}
        THEN "ok"
        ELSE IF raising(stop) THEN "raise"
        ELSE IF data[current(stop)].size = None \/ data[stop].size = None THEN "raise"
        ELSE "flag"

\* The rows of the thread activity table are [stat, per_hour]: stat is the Statistic
\* cell, "" when the row has no such cell and NotText when the cell holds a number (an
\* empty cell is read as NaN); per_hour is what _num reads in the per Hour cell.  The
\* outcome of analyze_thread_activity, lines 529-535: .lower() on a number raises
\* AttributeError.
NotText == "<nan>"
thread_activity_kind(data) ==
    LET raising(i) == data[i].stat = NotText
        hit(i) == /\ data[i].stat = "log switches (derived)"
                  /\ data[i].per_hour # None /\ data[i].per_hour > 4
        stops == { i \in 1..Len(data) : raising(i) \/ hit(i) }
        stop == CHOOSE i \in stops : \A k \in stops : i <= k
    IN  IF stops = {} THEN "ok" ELSE IF raising(stop) THEN "raise" ELSE "flag"

\* the outcome of analyze_top10_foreground_events
top10_events_kind(data, db_time_minutes) ==
    LET line == analyze_top10_foreground_events(data, db_time_minutes)
    IN  IF line = RAISE[1] THEN "raise" ELSE IF Head(line).w = FAIL THEN "flag" ELSE "ok"

NotFound == << T("(Table not found or empty)") >>
SepLines == << << >>, << T(SEP) >>, << >> >>

print_report(data) ==
    LET wait == analyze_top10_foreground_events(data.events, data.mins) IN
    IF data.events # << >> /\ wait = RAISE[1] THEN RAISE
    ELSE
       << << >>, << T("--- AWR Targeted Tables ---") >>, << >>,
          << T("DB"), T("Time"), T("(minutes):"), Num(data.mins) >>, << >>,
          << T("## Instance Efficiency Percentages (Target"), Num(100 * Scale), G("%"), G(")") >>,
          << >>,
          IF data.eff = << >> THEN NotFound ELSE analyze_instance_efficiency(data.eff) >>
       \o SepLines \o
       << << T("## Top"), Num(10 * Scale), T("Foreground Events by Total Wait Time") >>, << >>,
          IF data.events = << >> THEN NotFound ELSE wait >>
       \o SepLines \o
       << << T("## SQL ordered by Elapsed Time") >>, << >>,
          IF data.sql = "none" THEN NotFound ELSE analyze_sql_ordered_by_elapsed(data.sql) >>
       \o SepLines \o
       << << T("## SGA Target Advisory") >>, << >>,
          IF data.sga = "none" THEN NotFound ELSE analyze_sga_advisory(data.sga) >>
       \o SepLines \o
       << << T("## PGA Memory Advisory") >>, << >>,
          IF data.pga = "none" THEN NotFound ELSE analyze_pga_advisory(data.pga) >>
       \o SepLines \o
       << << T("## Instance Activity Stats - Thread Activity") >>, << >>,
          IF data.thread = "none" THEN NotFound ELSE analyze_thread_activity(data.thread) >>
       \o SepLines

-----------------------------------------------------------------------------
(* Step runners, mini_pm.py:196-427, as functions of the collection's input.  *)
(* Each returns what the runner returns; the files it writes are added by the *)
(* actions of run_all below.                                                  *)

\* run_config_check: inp = [kind, content]; kind "missing" (no mfec_pm.txt), "ok",
\* or "raise" (check_oracle_config raised)
run_config_check(inp, importable) ==
    IF inp.kind = "missing"
    THEN << << T(WARN), T("Skipped config_check (missing"), T("<path>)") >> >>
    ELSE << << T("File:"), T("<path>") >> >>
         \o (IF importable
             THEN IF inp.kind = "raise"
                  THEN << << T(FAIL), T("config_check failed:"), T("<exception>") >> >>
                  ELSE check_oracle_config(inp.content, TargetMM)
             ELSE << << T(FAIL), T("config_check module not importable") >> >>)

\* score_awr: a report is [name, tok, val, unit, wait, mtime, data]; tok tells whether
\* the text has a DB Time token ("none", "num": a number float() reads, "bad": one
\* it does not read); wait is the sum of the top events' wait time
BadScore == -1
score_awr(h, analyzer) ==
    IF h.tok = "bad" THEN BadScore                      \* float() raises ValueError
    ELSE IF h.tok = "num"
         THEN IF h.unit = "h" THEN h.val * 3600
              ELSE IF h.unit = "m" THEN h.val * 60
              ELSE h.val
    ELSE IF analyzer /\ ~h.data.raises /\ h.wait > 0 THEN h.wait
    ELSE h.mtime

RECURSIVE InsertDesc(_, _)
\* the place of x in a list sorted by score descending, behind its equals
InsertDesc(sorted, x) ==
    IF sorted = << >> THEN << x >>
    ELSE IF Head(sorted).score >= x.score THEN << Head(sorted) >> \o InsertDesc(Tail(sorted), x)
    ELSE << x >> \o sorted
RECURSIVE SortDesc(_)
\* list.sort(key=score, reverse=True): stable
SortDesc(xs) ==
    IF xs = << >> THEN << >> ELSE InsertDesc(SortDesc(SubSeq(xs, 1, Len(xs) - 1)), xs[Len(xs)])

scored_awrs(htmls, analyzer) ==
    SortDesc([ i \in 1..Len(htmls) |-> [score |-> score_awr(htmls[i], analyzer), h |-> htmls[i]] ])

top_3_awrs(htmls, analyzer) ==
    LET s == scored_awrs(htmls, analyzer) IN SubSeq(s, 1, IF Len(s) < 3 THEN Len(s) ELSE 3)

\* the names of the copies made: copying fails at the copy_fail_at-th report, if any
awr_copies(inp, analyzer) ==
    LET top == top_3_awrs(inp.htmls, analyzer)
        n == IF inp.copy_fail_at = 0 \/ inp.copy_fail_at > Len(top) THEN Len(top)
             ELSE inp.copy_fail_at - 1
    IN  [ i \in 1..n |-> << i, top[i].score \div 60, top[i].h.name >> ]

\* run_awr raises when score_awr does: nothing in it catches the ValueError
run_awr_raises(inp) ==
    inp.folder /\ \E i \in 1..Len(inp.htmls) : inp.htmls[i].tok = "bad"

\* run_awr: inp = [folder, htmls, copy_fail_at]; returns [best, text]
run_awr(inp, analyzer) ==
    IF ~inp.folder
    THEN [best |-> "", text |-> << << T(WARN), T("Skipped AWR (no report folder)") >> >>]
    ELSE IF inp.htmls = << >>
    THEN [best |-> "", text |-> << << T(WARN), T("Skipped AWR (no *.html)") >> >>]
    ELSE
      LET top == top_3_awrs(inp.htmls, analyzer)
          best == top[1].h
          copies == awr_copies(inp, analyzer)
          copied == [ i \in 1..Len(copies) |->
                        << T("Copied AWR (top"), Num(i * Scale), G(") to:"), T(copies[i][3]) >> ]
          failed == IF Len(copies) < Len(top)
                    THEN << << T(FAIL), T("Failed to copy selected AWRs to"), T("<exception>") >> >>
                    ELSE << >>
          rendered == IF best.data.raises THEN RAISE ELSE print_report(best.data)
      IN  [best |-> best.name,
           text |-> copied \o failed \o << << >> >>
                    \o << << T("Selected AWR for analysis:"), T(best.name) >>, << >> >>
                    \o (IF analyzer
                        THEN IF rendered = RAISE
                             THEN << << T(FAIL), T("AWR analyze failed:"), T("<exception>") >> >>
                             ELSE rendered
                        ELSE << << T(FAIL), T("awr_analyzer not importable") >> >>)]

\* run_tablespace_checks: the sorted files are [stem, raises, rows], raises telling
\* that the check raised; returns [text, items], the items being <<pdb_name, per_file_text>>
ts_result(f, importable) ==
    IF ~importable THEN << << T(FAIL), T("table_space_check not importable") >> >>
    ELSE IF f.raises
    THEN << << T(FAIL), T("tablespace check failed:"), T("<exception>") >> >>
    ELSE Strip(check_tablespace_free_space(f.rows))

RECURSIVE ConcatAll(_)
ConcatAll(ss) == IF ss = << >> THEN << >> ELSE Head(ss) \o ConcatAll(Tail(ss))

run_tablespace_checks(fs, db_name, importable) ==
    IF fs = << >>
    THEN [text  |-> << << T(WARN), T("Skipped tablespace (no tablespace_*.txt in DB root)") >> >>,
          items |-> << >>]
    ELSE [text  |-> ConcatAll([ i \in 1..Len(fs) |->
                       << << T("[tablespace_"), G(fs[i].stem), G(".txt]") >> >>
                       \o ts_result(fs[i], importable) \o << << >>, << >> >> ]),
          items |-> [ i \in 1..Len(fs) |->
                       << IF fs[i].stem # "" THEN fs[i].stem ELSE db_name,
                          ts_result(fs[i], importable) >> ]]

AlertHeader == << T("Alert code,Alert info,first occur,count,cause,action") >>

\* A line of an alert log is [k, ts, code, info]: k is "ts" for a line parse_ts reads as
\* a timestamp and "ora" for a line "ORA-nnnnn: info".  A timestamp is [fmt, wall, off]:
\* fmt is "T" (2024-01-09T10:00:00, with or without a UTC offset), "sp" (2024-01-09
\* 10:00:00) or "c" (Tue Jan 09 10:00:00 2024); wall is the time the line shows, in hours
\* since 2024-01-01 00:00, a Monday, all times lying in that January; off is the UTC
\* offset the line shows, in hours, or NoOff.  NoTs stands for None.
NoOff == 99
NoTs == [fmt |-> "", wall |-> 0, off |-> NoOff]
\* the UTC offset of the machine's local time zone, in hours
LocalOff == 7

\* lines 358-359: a naive timestamp is taken as local time, an aware one is converted;
\* the result is the local wall-clock time, by which aware datetimes compare
to_local(ts) == IF ts.off = NoOff THEN ts.wall ELSE ts.wall - ts.off + LocalOff

\* a < b for the lines' texts as Python compares strings: character by character.  A
\* text that begins with a digit precedes one that begins with a letter; then the date
\* decides, then " " before "T", then the time of day, then the offset, a text without
\* offset being a prefix of the ones with it and "+" preceding "-"; the texts with a
\* weekday are ordered by the weekday's name first
str_less(a, b) ==
    LET wd(d) == << 2, 6, 7, 5, 1, 3, 4 >>[(d % 7) + 1]     \* Mon Tue Wed Thu Fri Sat Sun
        offk(o) == IF o = NoOff THEN 0 ELSE IF o >= 0 THEN 1 + o ELSE 50 - o
        key(t) == IF t.fmt = "c"
                  THEN << 1, wd(t.wall \div 24), t.wall \div 24, t.wall % 24, offk(t.off) >>
                  ELSE << 0, t.wall \div 24, IF t.fmt = "sp" THEN 0 ELSE 1, t.wall % 24,
                          offk(t.off) >>
    IN  \E i \in 1..5 : key(a)[i] < key(b)[i] /\ \A h \in 1..(i - 1) : key(a)[h] = key(b)[h]

\* line 363 with <= in place of <
outside_window_le(cur, since_dt) == cur = NoTs \/ to_local(cur) <= since_dt
\* line 363: no timestamp read yet, or one before the window
outside_window(cur, since_dt) == cur = NoTs \/ to_local(cur) < since_dt

\* the loop of run_alert_log over the log's lines, since_dt being now_local minus
\* alert_days.  The state is [agg, cur]: agg maps the codes seen to [first, info, count],
\* first being the text of a timestamp line (first_dt is to_local of it); cur is the last
\* timestamp line read, or NoTs.
RECURSIVE alert_loop(_, _, _)
alert_loop(log, since, st) ==
    IF log = << >> THEN st.agg
    ELSE LET e == Head(log) IN
         IF e.k = "ts" THEN alert_loop(Tail(log), since, [st EXCEPT !.cur = e.ts])
         ELSE IF outside_window(st.cur, since) THEN alert_loop(Tail(log), since, st)
         ELSE LET old == IF e.code \in DOMAIN st.agg THEN st.agg[e.code]
                          ELSE [first |-> st.cur, info |-> e.info, count |-> 0]
                  cnt == [old EXCEPT !.count = old.count + 1]
                  new == IF to_local(st.cur) < to_local(cnt.first)
                         THEN [cnt EXCEPT !.first = st.cur,
                                          !.info = IF e.info # "" THEN e.info ELSE cnt.info]
                         ELSE cnt
              IN  alert_loop(Tail(log), since,
                     [st EXCEPT !.agg = [ c \in DOMAIN st.agg \cup {e.code} |->
                                            IF c = e.code THEN new ELSE st.agg[c] ]])

\* alert_log_check_mapped.parse_alerts: a timestamp line is one of the form "T", the
\* other forms matching neither pattern; the timestamps are compared as texts
RECURSIVE parse_alerts(_, _)
parse_alerts(fp, st) ==
    IF fp = << >> THEN st.agg
    ELSE LET e == Head(fp)
             is_earlier(a, b) == IF a = NoTs THEN FALSE ELSE IF b = NoTs THEN TRUE
                                 ELSE str_less(a, b)
         IN
         IF e.k = "ts"
         THEN parse_alerts(Tail(fp), IF e.ts.fmt = "T" THEN [st EXCEPT !.cur = e.ts] ELSE st)
         ELSE LET new ==
                    IF e.code \notin DOMAIN st.agg
                    THEN [first |-> st.cur, info |-> e.info, count |-> 1]
                    ELSE LET old == st.agg[e.code] IN
                         IF is_earlier(st.cur, old.first)
                            \/ (old.first = NoTs /\ st.cur # NoTs)
                         THEN [first |-> st.cur, info |-> e.info, count |-> old.count + 1]
                         ELSE [old EXCEPT !.count = old.count + 1]
              IN  parse_alerts(Tail(fp),
                     [st EXCEPT !.agg = [ c \in DOMAIN st.agg \cup {e.code} |->
                                            IF c = e.code THEN new ELSE st.agg[c] ]])

\* the order of the codes in the tables of the code, used as the order of the strings
CodeRank(c) ==
    CASE c = "ORA-00600" -> 1 [] c = "ORA-01555" -> 2 [] c = "ORA-04031" -> 3
      [] c = "ORA-07445" -> 4 [] OTHER -> 5

RECURSIVE alert_sorted(_)
\* sorted(agg.items(), key=(first is None, first or 'ZZZ', code)), in run_alert_log and
\* in alert_log_check_mapped.main: the firsts are compared as texts
alert_sorted(agg) ==
    IF DOMAIN agg = {} THEN << >>
    ELSE LET le(c, d) ==
                 IF (agg[c].first = NoTs) # (agg[d].first = NoTs) THEN agg[d].first = NoTs
                 ELSE \/ str_less(agg[c].first, agg[d].first)
                      \/ agg[c].first = agg[d].first /\ CodeRank(c) <= CodeRank(d)
             least == CHOOSE c \in DOMAIN agg : \A d \in DOMAIN agg : le(c, d)
         IN  << least >> \o alert_sorted([ d \in DOMAIN agg \ {least} |-> agg[d] ])

\* run_alert_log: inp = [kind, log, now, days]; kind "nofolder", "nolog", "ok" or "raise"
\* (reading the log or the mapping raised); now is now_local and days is alert_days
run_alert_log(inp, importable) ==
    IF inp.kind = "nofolder"
    THEN << << T(WARN), T("Skipped alert log (log folder not found)") >> >>
    ELSE IF inp.kind = "nolog"
    THEN << << T(WARN), T("Skipped alert log (no alert_*.log found)") >> >>
    ELSE IF ~importable
    THEN << << T(FAIL), T("alert_log_check_mapped not importable") >> >>
    ELSE IF inp.kind = "raise"
    THEN << << T(FAIL), T("Alert report failed:"), T("<exception>") >> >>
    ELSE LET agg == alert_loop(inp.log, inp.now - 24 * inp.days,
                               [agg |-> [c \in {} |-> 0], cur |-> NoTs])
             rows == alert_sorted(agg)
             first(c) == [w |-> agg[c].first.fmt, n |-> 100 * agg[c].first.wall + agg[c].first.off,
                          sp |-> FALSE]
         IN  << AlertHeader >> \o
             [ i \in 1..Len(rows) |->
                 << T(rows[i]), G(","), G(agg[rows[i]].info), G(","), first(rows[i]),
                    G(","), GNum(agg[rows[i]].count), G(","), G(","), G("") >> ]

\* the lines of alert_report.csv as run_alert_log leaves it: the header alone on the
\* paths that skip or fail (lines 328, 334, 339, 406), the header and the rows otherwise
alert_report_csv(inp, importable) ==
    IF inp.kind = "ok" /\ importable THEN run_alert_log(inp, importable)
    ELSE << AlertHeader >>

\* backup_check.check_file: a log is [name, kind]; kind "pass" (the age is within the
\* threshold), "old", "nots" (no backup timestamp), "unreadable", or "raise"
check_file(log) ==
    IF log.kind = "unreadable" THEN << T(FAIL), T(log.name), T("Failed to read file:") >>
    ELSE IF log.kind = "nots" THEN << T(FAIL), T(log.name), T("No backup timestamps found") >>
    ELSE IF log.kind = "pass" THEN << T(PASS), T(log.name), T("Backup newer than 1 weeks") >>
    ELSE << T(FAIL), T(log.name), T("Backup is older than 1 weeks") >>

\* The content of a backup log is [readable, banner, mtime, stamps]: banner is the time
\* of the RMAN banner line "Production on ..." or None (no banner, or one strptime does
\* not read), mtime the file's modification time, stamps the texts of the form
\* YYYY-MM-DD HH:MM:SS found in the file, each the time it shows or None when strptime
\* rejects it.  Times are in hours, a day being DayHours of them.
DayHours == 24

\* extract_collection_date: [dt, source]
extract_collection_date(content) ==
    IF content.banner # None THEN [dt |-> content.banner, source |-> "banner"]
    ELSE [dt |-> content.mtime, source |-> "mtime"]

\* extract_latest_backup_time: the newest of the timestamps read, or None
extract_latest_backup_time(content) ==
    LET candidates == { content.stamps[i] : i \in 1..Len(content.stamps) } \ {None}
    IN  IF candidates = {} THEN None
        ELSE CHOOSE x \in candidates : \A y \in candidates : y <= x

\* lines 80-82: max(timedelta(0), collection_dt - latest_backup_dt)
backup_age(collection_dt, latest_backup_dt) ==
    IF collection_dt - latest_backup_dt < 0 THEN 0 ELSE collection_dt - latest_backup_dt

\* check_file_kind with age < timedelta(days=threshold_days) in place of <=
check_file_kind_lt(content, threshold_days, override_collection) ==
    LET collection_dt == IF override_collection # None THEN override_collection
                         ELSE extract_collection_date(content).dt
        latest_backup_dt == extract_latest_backup_time(content)
    IN  IF ~content.readable THEN "unreadable"
        ELSE IF latest_backup_dt = None THEN "nots"
        ELSE IF backup_age(collection_dt, latest_backup_dt) < threshold_days * DayHours
        THEN "pass" ELSE "old"

\* the branch check_file takes, lines 67-92: the kind of the log for check_file above
check_file_kind(content, threshold_days, override_collection) ==
    LET collection_dt == IF override_collection # None THEN override_collection
                         ELSE extract_collection_date(content).dt
        latest_backup_dt == extract_latest_backup_time(content)
    IN  IF ~content.readable THEN "unreadable"
        ELSE IF latest_backup_dt = None THEN "nots"
        ELSE IF backup_age(collection_dt, latest_backup_dt) <= threshold_days * DayHours
        THEN "pass" ELSE "old"

\* run_backups: inp = [folder, present]; present lists the logs found, in the order
\* backup_arch.log, backup_con.log, backup_db.log
run_backups(inp, importable) ==
    IF ~inp.folder
    THEN << << T(WARN), T("Skipped backups (auto_collection\\backup not found)") >> >>
    ELSE IF inp.present = << >>
    THEN << << T(WARN), T("Skipped backups (no backup_*.log found)") >> >>
    ELSE IF ~importable
    THEN << << T(FAIL), T("backup_check not importable") >> >>
    ELSE [ i \in 1..Len(inp.present) |->
             IF inp.present[i].kind = "raise"
             THEN << T(FAIL), T(inp.present[i].name), T("failed:"), T("<exception>") >>
             ELSE check_file(inp.present[i]) ]

-----------------------------------------------------------------------------
(* Inputs *)

ConfigContents == [ver : {NoVer, TargetMM, << 19, 19 >>}, paths : 0..2, groups : 0..2]
GoodContent == [ver |-> TargetMM, paths |-> 2, groups |-> 2]
ConfigInputs ==
    { [kind |-> "missing", content |-> GoodContent], [kind |-> "raise", content |-> GoodContent] }
    \cup [kind : {"ok"}, content : ConfigContents]

SeqsUpTo(S, n) == UNION { [1..k -> S] : k \in 0..n }

EffRows == [metric : {"Buffer Hit %", "Execute to Parse %"}, value : {45 * Scale, 99 * Scale}]
\* the DB CPU row, when there is one, comes first; its %DB time may be None
CpuRows == { << >>, << [event |-> "DB CPU", pct |-> 10 * Scale] >>,
             << [event |-> "DB CPU", pct |-> None] >> }
EventRows == [event : {"log file sync", "db file scattered read"},
              pct : {5 * Scale, 30 * Scale, 60 * Scale}]
AwrData ==
    { [raises |-> FALSE, mins |-> m, eff |-> e, events |-> c \o v, sql |-> q, sga |-> g,
       pga |-> "ok", thread |-> "ok"] :
        m \in {30 * Scale, 120 * Scale}, e \in SeqsUpTo(EffRows, MaxEff), c \in CpuRows,
        v \in SeqsUpTo(EventRows, MaxRows), q \in {"ok", "flag"}, g \in {"ok", "flag"} }
CleanData == [raises |-> FALSE, mins |-> 120 * Scale, eff |-> << >>, events |-> << >>,
              sql |-> "ok", sga |-> "ok", pga |-> "ok", thread |-> "ok"]
RaisingData == [CleanData EXCEPT !.raises = TRUE]
Html(nm, d) == [name |-> nm, tok |-> "num", val |-> 2, unit |-> "h", wait |-> 0, mtime |-> 1,
                data |-> d]
AwrInputs ==
    { [folder |-> FALSE, htmls |-> << >>, copy_fail_at |-> 0],
      [folder |-> TRUE, htmls |-> << >>, copy_fail_at |-> 0] }
    \cup { [folder |-> TRUE, htmls |-> << Html("a.html", d) >>, copy_fail_at |-> 0] :
             d \in AwrData }
    \cup { [folder |-> TRUE, htmls |-> << Html("a.html", d) >>, copy_fail_at |-> k] :
             d \in {CleanData, RaisingData}, k \in {0, 1} }

TsRows == [name : {"SYSTEM", "USERS"}, pct : {3 * Scale, 7 * Scale, 12 * Scale, 1499, 15 * Scale, NotNum}]
TsFiles ==
    { [stem |-> "PDB1", raises |-> TRUE, rows |-> << >>] }
    \cup [stem : {"PDB1"}, raises : {FALSE}, rows : SeqsUpTo(TsRows, MaxRows)]
\* the text run_all classifies when a collection has no tablespace file
NoTablespaceFiles == << << T("No tablespace files") >> >>

\* two timestamp lines, one within the window of two days before now and one before
\* it, and error lines
AlertLines ==
    { [k |-> "ts", ts |-> [fmt |-> "T", wall |-> w, off |-> LocalOff], code |-> "", info |-> ""] :
        w \in {150, 200} }
    \cup { [k |-> "ora", ts |-> NoTs, code |-> c, info |-> "msg"] :
             c \in {"ORA-00600", "ORA-04031", "ORA-01555"} }
AlertInputs ==
    { [kind |-> k, log |-> << >>, now |-> 240, days |-> 2] : k \in {"nofolder", "nolog", "raise"} }
    \cup [kind : {"ok"}, log : SeqsUpTo(AlertLines, MaxLines + 1), now : {240}, days : {2}]

BackupNames == << "backup_arch.log", "backup_con.log", "backup_db.log" >>
BackupKinds == {"pass", "old", "nots", "unreadable", "raise"}
\* the logs present are a subsequence of the three names, each in some condition
BackupPresent ==
    { SelectSeq([ i \in 1..3 |-> [name |-> BackupNames[i], kind |-> ks[i]] ],
                LAMBDA l : l.kind # "absent") : ks \in [1..3 -> BackupKinds \cup {"absent"}] }
BackupInputs ==
    { [folder |-> FALSE, present |-> << >>] } \cup [folder : {TRUE}, present : BackupPresent]

\* lines of the free texts: lines the checks print, and lines that only resemble them
FreeLines ==
    { << >>,
      << T("note") >>,
      << T(FAIL) >>,
      << T(PASS), T("fine") >>,
      << T(FAIL), T("Control"), T("File") >>,
      << T(FAIL), G("Control"), T("file") >>,
      << T(FAIL), T("redolog") >>,
      << T(FAIL), T("Patches") >>,
      << T(FAIL), T("x"), T("less"), T("than"), Num(3 * Scale), G("%") >>,
      << T("Less"), T("Than"), Num(7 * Scale) >>,
      << T(FAIL), T("less"), T("than"), T("many") >>,
      << T(FAIL), T("ev"), G(":"), Num(60 * Scale), G("%"), T("DB"), T("Time") >>,
      << T("ev"), G(":"), Num(30 * Scale), G("%"), T("DB"), T("Time") >>,
      << T("Hit"), T("Ratio"), Num(40 * Scale), T("%") >>,
      << T(FAIL), G("Concerning"), T("running"), T("SQL") >>,
      AlertHeader,
      << T("ORA-00600"), G(","), G("msg") >>,
      << T("ORA-04031"), G(","), G("msg") >>,
      << T("ORA-01555"), G(","), G("msg") >> }
FreeTexts == SeqsUpTo(FreeLines, MaxLines)

Items == {"cfg", "awr", "ts", "alert", "backup"}

-----------------------------------------------------------------------------
(* The classifiers applied to a text: the text a step runner returns for an   *)
(* input ("check"), or a free text ("free").                                   *)

\* kind is "free", or what became of the step: "ok", "skipped" or "failed"; rows are
\* the data rows of the tablespace report and data the parsed AWR report, when the
\* text is the report of a check that ran
Probe(item, kind, text, rows, data) ==
    [item |-> item, kind |-> kind, text |-> text, rows |-> rows, data |-> data,
     sev |-> 0, status |-> "", label |-> ""]

NoProbe == Probe("", "", << >>, << >>, CleanData)

\* no spreadsheet written
NoSheet == [written |-> FALSE, rows |-> << >>, sysmerge |-> << >>, dbmerge |-> << >>]

\* run_all outside the classifier experiment
Idle ==
    /\ pc = "idle" /\ mods = {} /\ db_dirs = << >> /\ di = 0
    /\ cfg_text = << >> /\ cfg_sev = 0
    /\ awr_selected = "" /\ awr_text = << >> /\ awr_sev = 0
    /\ ts_text = << >> /\ ts_items = << >>
    /\ alert_csv_or_msg = << >> /\ a_sev = 0
    /\ backup_text = << >> /\ b_sev = 0
    /\ excel_rows = << >> /\ summary_lines = << >> /\ files = {}
    /\ sheet = NoSheet /\ steplog = << >> /\ faults = 0

orch_vars == << pc, mods, db_dirs, di, cfg_text, cfg_sev, awr_selected, awr_text, awr_sev,
                ts_text, ts_items, alert_csv_or_msg, a_sev, backup_text, b_sev,
                excel_rows, summary_lines, files, sheet, steplog, faults >>

\* what became of a step, from its input
ConfigKind(inp, imp) ==
    IF inp.kind = "missing" THEN "skipped" ELSE IF inp.kind = "raise" \/ ~imp THEN "failed" ELSE "ok"
AwrKind(inp, imp) ==
    IF ~inp.folder \/ inp.htmls = << >> THEN "skipped"
    ELSE IF ~imp \/ top_3_awrs(inp.htmls, imp)[1].h.data.raises
              \/ print_report(top_3_awrs(inp.htmls, imp)[1].h.data) = RAISE THEN "failed"
    ELSE "ok"
TsKind(f, imp) == IF f.raises \/ ~imp THEN "failed" ELSE "ok"
AlertKind(inp, imp) ==
    IF inp.kind \in {"nofolder", "nolog"} THEN "skipped"
    ELSE IF inp.kind = "raise" \/ ~imp THEN "failed" ELSE "ok"
BackupKind(inp, imp) ==
    IF ~inp.folder \/ inp.present = << >> THEN "skipped"
    ELSE IF ~imp \/ \E i \in 1..Len(inp.present) : inp.present[i].kind \in {"raise", "unreadable"}
    THEN "failed"
    ELSE "ok"

InitSev ==
    /\ Idle
    /\ \/ \E t \in FreeTexts : \E it \in Items : probe = Probe(it, "free", t, << >>, CleanData)
       \/ \E inp \in ConfigInputs : \E imp \in BOOLEAN :
             probe = Probe("cfg", ConfigKind(inp, imp), run_config_check(inp, imp), << >>, CleanData)
       \/ \E inp \in AwrInputs :
             probe = Probe("awr", AwrKind(inp, TRUE), run_awr(inp, TRUE).text, << >>,
                           IF inp.htmls = << >> THEN CleanData ELSE inp.htmls[1].data)
       \/ probe = Probe("awr", "failed",
                         run_awr([folder |-> TRUE, htmls |-> << Html("a.html", CleanData) >>,
                                  copy_fail_at |-> 0], FALSE).text, << >>, CleanData)
       \/ \E f \in TsFiles : \E imp \in BOOLEAN :
             probe = Probe("ts", TsKind(f, imp), ts_result(f, imp), f.rows, CleanData)
       \/ probe = Probe("ts", "skipped", NoTablespaceFiles, << >>, CleanData)
       \/ \E inp \in AlertInputs : \E imp \in BOOLEAN :
             probe = Probe("alert", AlertKind(inp, imp), run_alert_log(inp, imp), << >>, CleanData)
       \/ \E inp \in BackupInputs : \E imp \in BOOLEAN :
             probe = Probe("backup", BackupKind(inp, imp), run_backups(inp, imp), << >>, CleanData)

Classified(sev) ==
    probe' = [probe EXCEPT !.sev = sev, !.status = _status_from_sev(sev), !.label = _sev_label(sev)]

ClassifyConfig ==
    /\ probe.item = "cfg" /\ probe.sev = 0
    /\ Classified(severity_config(probe.text))
    /\ UNCHANGED orch_vars
ClassifyAwr ==
    /\ probe.item = "awr" /\ probe.sev = 0
    /\ Classified(severity_awr(probe.text))
    /\ UNCHANGED orch_vars
ClassifyTablespace ==
    /\ probe.item = "ts" /\ probe.sev = 0
    /\ Classified(severity_tablespace(probe.text))
    /\ UNCHANGED orch_vars
ClassifyAlert ==
    /\ probe.item = "alert" /\ probe.sev = 0
    /\ Classified(severity_alert(probe.text))
    /\ UNCHANGED orch_vars
ClassifyBackup ==
    /\ probe.item = "backup" /\ probe.sev = 0
    /\ Classified(severity_backup(probe.text))
    /\ UNCHANGED orch_vars

NextSev == ClassifyConfig \/ ClassifyAwr \/ ClassifyTablespace \/ ClassifyAlert \/ ClassifyBackup

SpecSev == InitSev /\ [][NextSev]_vars

-----------------------------------------------------------------------------
(* mini_pm.run_all: the inputs of one run *)

Modules == {"config_check", "awr_analyzer", "table_space_check", "alert_log_check_mapped",
            "backup_check"}

\* the collections' folder names; iterdir() lists them in any order
DbNames == << "CDB1", "CDB2", "ORCL" >>
Perms(n) == { p \in [1..n -> 1..n] : \A i, j \in 1..n : p[i] = p[j] => i = j }
DbLists == UNION { { [ i \in 1..k |-> DbNames[p[i]] ] : p \in Perms(k) } : k \in 0..MaxDbs }

\* the stems of the tablespace_<stem>.txt files a collection can hold, in the order
\* of the sorted file names; tablespace_.txt has the empty stem
Stems == << "", "CDB1", "PDB1" >>
RECURSIVE StemFiles(_)
StemFiles(S) ==
    IF S = {} THEN << >>
    ELSE << [stem |-> Stems[Min(S)], raises |-> FALSE,
             rows |-> << [name |-> "USERS", pct |-> 15 * Scale] >>] >>
         \o StemFiles(S \ {Min(S)})

RegularConfig == [kind |-> "ok", content |-> GoodContent]
RunConfigInputs ==
    { RegularConfig,
      [kind |-> "missing", content |-> GoodContent],
      [kind |-> "raise", content |-> GoodContent],
      [kind |-> "ok", content |-> [ver |-> TargetMM, paths |-> 1, groups |-> 1]] }

RegularAwr == [folder |-> TRUE, htmls |-> << Html("a.html", CleanData) >>, copy_fail_at |-> 0]
\* a report whose text has a DB Time token float() does not read, such as "DB Time: 1.2.3"
BadHtml == [Html("b.html", CleanData) EXCEPT !.tok = "bad"]
BusyData == [CleanData EXCEPT !.events = << [event |-> "DB CPU", pct |-> 10 * Scale],
                                            [event |-> "log file sync", pct |-> 60 * Scale] >>]
RunAwrInputs ==
    { RegularAwr,
      [folder |-> FALSE, htmls |-> << >>, copy_fail_at |-> 0],
      [folder |-> TRUE, htmls |-> << >>, copy_fail_at |-> 0],
      [RegularAwr EXCEPT !.htmls = << Html("a.html", CleanData), BadHtml >>],
      [RegularAwr EXCEPT !.htmls = << Html("a.html", RaisingData) >>],
      [RegularAwr EXCEPT !.htmls = << Html("a.html", BusyData) >>, !.copy_fail_at = 1],
      [RegularAwr EXCEPT !.htmls = << Html("a.html", CleanData), Html("b.html", CleanData),
                                      Html("c.html", CleanData), Html("d.html", CleanData) >>] }

\* the regular collection holds tablespace_PDB1.txt alone
RegularTablespace == StemFiles({3})
TablespaceFiles ==
    { StemFiles(S) : S \in { X \in SUBSET (1..Len(Stems)) : Cardinality(X) <= MaxPdbs } }
\* the first file's check raises, or reports a tablespace with 3% free
RunTablespaceInputs ==
    TablespaceFiles
    \cup { [fs EXCEPT ![1].raises = TRUE] : fs \in {StemFiles({3}), StemFiles({1, 3})} }
    \cup { [fs EXCEPT ![1].rows = << [name |-> "SYSTEM", pct |-> 3 * Scale] >>] :
             fs \in {StemFiles({3}), StemFiles({1, 3})} }

RegularAlert == [kind |-> "ok", log |-> << >>, now |-> 240, days |-> 2]
RunAlertInputs ==
    { RegularAlert,
      [RegularAlert EXCEPT !.kind = "nofolder"],
      [RegularAlert EXCEPT !.kind = "nolog"],
      [RegularAlert EXCEPT !.kind = "raise"],
      [RegularAlert EXCEPT !.log =
          << [k |-> "ts", ts |-> [fmt |-> "T", wall |-> 200, off |-> LocalOff], code |-> "",
              info |-> ""],
             [k |-> "ora", ts |-> NoTs, code |-> "ORA-00600", info |-> "msg"] >>] }

AllLogs(kind) == [ i \in 1..3 |-> [name |-> BackupNames[i], kind |-> kind] ]
RegularBackup == [folder |-> TRUE, present |-> AllLogs("pass")]
RunBackupInputs ==
    { RegularBackup,
      [folder |-> FALSE, present |-> << >>],
      [folder |-> TRUE, present |-> << >>],
      [folder |-> TRUE, present |-> AllLogs("old")],
      [folder |-> TRUE, present |-> << [name |-> "backup_db.log", kind |-> "raise"] >>] }

-----------------------------------------------------------------------------
(* mini_pm.run_all, mini_pm.py:525-660 *)

\* a file written under report_root: dir is the collection's folder ("" for the root);
\* a copied AWR report is named (top<top>_<mins>)<name>
\* a file written under report_root: head is the first line of alert_report.csv and is
\* not kept for the other files
F(dir, name) == [dir |-> dir, name |-> name, top |-> 0, mins |-> 0, head |-> << >>]

StepRec(step, kind, sev, pdbs) ==
    [db |-> di, step |-> step, kind |-> kind, sev |-> sev, pdbs |-> pdbs]

\* the loop body with the Alert-log and Backup steps exchanged
AfterStep_swapped(step) ==
    CASE step = "cfg"    -> "awr"
      [] step = "awr"    -> "ts"
      [] step = "ts"     -> "backup"
      [] step = "backup" -> "alert"
      [] step = "alert"  -> "rows"
\* the statement that follows a step in the body of the loop
AfterStep(step) ==
    CASE step = "cfg"    -> "awr"
      [] step = "awr"    -> "ts"
      [] step = "ts"     -> "alert"
      [] step = "alert"  -> "backup"
      [] step = "backup" -> "rows"

\* a step may draw an input other than the regular one while the run has drawn fewer
\* than MaxFaults of them
Draw(inp, regular) ==
    /\ inp \in regular \/ faults < MaxFaults
    /\ faults' = faults + (IF inp \in regular THEN 0 ELSE 1)

cdb_name == db_dirs[di]

Init ==
    /\ pc = "start"
    /\ \E m \in {Modules} \cup { Modules \ {x} : x \in Modules } :
          mods = m /\ faults = IF m = Modules THEN 0 ELSE 1
    /\ db_dirs \in DbLists
    /\ di = 0
    /\ cfg_text = << >> /\ cfg_sev = 0
    /\ awr_selected = "" /\ awr_text = << >> /\ awr_sev = 0
    /\ ts_text = << >> /\ ts_items = << >>
    /\ alert_csv_or_msg = << >> /\ a_sev = 0
    /\ backup_text = << >> /\ b_sev = 0
    /\ excel_rows = << >> /\ summary_lines = << >> /\ files = {}
    /\ sheet = NoSheet /\ steplog = << >>
    /\ probe = NoProbe

\* lines 535-548: no collection ends the run; otherwise the summary's head is written
Begin ==
    /\ pc = "start"
    /\ IF db_dirs = << >>
       THEN pc' = "nodb" /\ UNCHANGED << di, summary_lines >>
       ELSE /\ pc' = "cfg" /\ di' = 1
            /\ summary_lines' = << << "#", "PM Summary" >> >>
    /\ UNCHANGED << mods, db_dirs, cfg_text, cfg_sev, awr_selected, awr_text, awr_sev, ts_text,
                    ts_items, alert_csv_or_msg, a_sev, backup_text, b_sev, excel_rows, files,
                    sheet, steplog, faults, probe >>

\* lines 558-562
RunConfig ==
    /\ pc = "cfg"
    /\ \E inp \in RunConfigInputs :
          LET imp == "config_check" \in mods
              text == run_config_check(inp, imp)
          IN  /\ Draw(inp, {RegularConfig})
              /\ cfg_text' = text
              /\ cfg_sev' = severity_config(text)
              /\ files' = files \cup {F(cdb_name, "config_check.txt")}
              /\ steplog' = Append(steplog,
                               StepRec("cfg", ConfigKind(inp, imp), severity_config(text), << >>))
    /\ pc' = AfterStep("cfg")
    /\ UNCHANGED << mods, db_dirs, di, awr_selected, awr_text, awr_sev, ts_text, ts_items,
                    alert_csv_or_msg, a_sev, backup_text, b_sev, excel_rows, summary_lines,
                    sheet, probe >>

\* lines 564-568; the ValueError of score_awr leaves run_awr and run_all
RunAwr ==
    /\ pc = "awr"
    /\ \E inp \in RunAwrInputs :
          LET imp == "awr_analyzer" \in mods
              res == run_awr(inp, imp)
              copies == awr_copies(inp, imp)
          IN  /\ Draw(inp, {RegularAwr})
              /\ IF run_awr_raises(inp)
                 THEN /\ pc' = "aborted"
                      /\ steplog' = Append(steplog, StepRec("awr", "raised", 0, << >>))
                      /\ UNCHANGED << awr_selected, awr_text, awr_sev, files >>
                 ELSE /\ pc' = AfterStep("awr")
                      /\ awr_selected' = res.best
                      /\ awr_text' = res.text
                      /\ awr_sev' = severity_awr(res.text)
                      /\ files' = files \cup {F(cdb_name, "awr_analysis.txt")}
                            \cup (IF inp.folder /\ inp.htmls # << >>
                                  THEN { [dir |-> cdb_name, name |-> copies[i][3], top |-> copies[i][1],
                                          mins |-> copies[i][2], head |-> << >>] :
                                         i \in 1..Len(copies) }
                                  ELSE {})
                      /\ steplog' = Append(steplog,
                                       StepRec("awr", AwrKind(inp, imp), severity_awr(res.text), << >>))
    /\ UNCHANGED << mods, db_dirs, di, cfg_text, cfg_sev, ts_text, ts_items, alert_csv_or_msg,
                    a_sev, backup_text, b_sev, excel_rows, summary_lines, sheet, probe >>

\* lines 570-573
RunTablespace ==
    /\ pc = "ts"
    /\ \E fs \in RunTablespaceInputs :
          LET imp == "table_space_check" \in mods
              res == run_tablespace_checks(fs, cdb_name, imp)
          IN  /\ Draw(fs, {RegularTablespace})
              /\ ts_text' = res.text
              /\ ts_items' = res.items
              /\ files' = files \cup {F(cdb_name, "tablespace_report.txt")}
              /\ steplog' = Append(steplog,
                    StepRec("ts",
                            IF fs = << >> THEN "skipped"
                            ELSE IF \E i \in 1..Len(fs) : TsKind(fs[i], imp) = "failed"
                                 THEN "failed" ELSE "ok",
                            0, [ i \in 1..Len(res.items) |-> res.items[i][1] ]))
    /\ pc' = AfterStep("ts")
    /\ UNCHANGED << mods, db_dirs, di, cfg_text, cfg_sev, awr_selected, awr_text, awr_sev,
                    alert_csv_or_msg, a_sev, backup_text, b_sev, excel_rows, summary_lines,
                    sheet, probe >>

\* lines 575-579
RunAlert ==
    /\ pc = "alert"
    /\ \E inp \in RunAlertInputs :
          LET imp == "alert_log_check_mapped" \in mods
              text == run_alert_log(inp, imp)
          IN  /\ Draw(inp, {RegularAlert})
              /\ alert_csv_or_msg' = text
              /\ a_sev' = severity_alert(text)
              /\ files' = files \cup {[F(cdb_name, "alert_report.csv") EXCEPT
                                            !.head = Head(alert_report_csv(inp, imp))]}
              /\ steplog' = Append(steplog,
                               StepRec("alert", AlertKind(inp, imp), severity_alert(text), << >>))
    /\ pc' = AfterStep("alert")
    /\ UNCHANGED << mods, db_dirs, di, cfg_text, cfg_sev, awr_selected, awr_text, awr_sev,
                    ts_text, ts_items, backup_text, b_sev, excel_rows, summary_lines, sheet,
                    probe >>

\* lines 581-585
RunBackup ==
    /\ pc = "backup"
    /\ \E inp \in RunBackupInputs :
          LET imp == "backup_check" \in mods
              text == run_backups(inp, imp)
          IN  /\ Draw(inp, {RegularBackup})
              /\ backup_text' = text
              /\ b_sev' = severity_backup(text)
              /\ files' = files \cup {F(cdb_name, "backup_report.txt")}
              /\ steplog' = Append(steplog,
                               StepRec("backup", BackupKind(inp, imp), severity_backup(text), << >>))
    /\ pc' = AfterStep("backup")
    /\ UNCHANGED << mods, db_dirs, di, cfg_text, cfg_sev, awr_selected, awr_text, awr_sev,
                    ts_text, ts_items, alert_csv_or_msg, a_sev, excel_rows, summary_lines,
                    sheet, probe >>

\* a row of the spreadsheet: its columns System Name, Database, Checklist Items,
\* Status, Severity and Description
Row(sys, db, item, status, severity, desc) ==
    [sys |-> sys, db |-> db, item |-> item, status |-> status, severity |-> severity,
     desc |-> desc]

ChecklistItems == << "Database Configuration", "Database Performance",
                     "Database Size and Allocated Growth Rate",
                     "Tablespaces Size and Free Space", "Database Alert log", "Backup Status" >>

\* pdb_rows without the row set of a collection that has no tablespace file
pdb_rows_none(items, name) == items
\* line 588
pdb_rows(items, name) == IF items # << >> THEN items ELSE << << name, NoTablespaceFiles >> >>

\* lines 590-646: the six rows appended for one element of pdb_rows
six_rows(pdb_name, ts_item_text) ==
    LET ts_sev == severity_tablespace(ts_item_text) IN
    << Row(cdb_name, pdb_name, ChecklistItems[1], _status_from_sev(cfg_sev), _sev_label(cfg_sev),
           _desc_lines_from(cfg_text, 12)),
       Row(cdb_name, pdb_name, ChecklistItems[2], _status_from_sev(awr_sev), _sev_label(awr_sev),
           _desc_lines_from(awr_text, 12)),
       Row(cdb_name, pdb_name, ChecklistItems[3], "Normal", _sev_label(4), << >>),
       Row(cdb_name, pdb_name, ChecklistItems[4], _status_from_sev(ts_sev), _sev_label(ts_sev),
           _desc_lines_from(ts_item_text, 12)),
       Row(cdb_name, pdb_name, ChecklistItems[5], _status_from_sev(a_sev), _sev_label(a_sev),
           IF a_sev < 4 THEN _desc_lines_from(alert_csv_or_msg, 8)
           ELSE << << T("No ORA-* in the last window.") >> >>),
       Row(cdb_name, pdb_name, ChecklistItems[6], _status_from_sev(b_sev), _sev_label(b_sev),
           _desc_lines_from(backup_text, 12)) >>

\* lines 587-652: the rows and the summary lines of the collection, then the next
\* collection or the end of the loop
BuildRows ==
    /\ pc = "rows"
    /\ LET prs == pdb_rows(ts_items, cdb_name) IN
       excel_rows' = excel_rows \o ConcatAll([ j \in 1..Len(prs) |-> six_rows(prs[j][1], prs[j][2]) ])
    /\ summary_lines' = summary_lines \o << << "##", cdb_name >> >>
                        \o (IF awr_selected # "" THEN << << "AWR chosen", awr_selected >> >> ELSE << >>)
                        \o << << "Reports", cdb_name >> >>
    /\ IF di < Len(db_dirs) THEN di' = di + 1 /\ pc' = "cfg"
       ELSE pc' = "write" /\ UNCHANGED di
    /\ UNCHANGED << mods, db_dirs, cfg_text, cfg_sev, awr_selected, awr_text, awr_sev, ts_text,
                    ts_items, alert_csv_or_msg, a_sev, backup_text, b_sev, files, sheet, steplog,
                    faults, probe >>

-----------------------------------------------------------------------------
(* mini_pm._write_excel, mini_pm.py:430-522 *)

order_priority(item) ==
    CASE item = "Database Configuration" -> 0
      [] item = "Database Performance" -> 1
      [] item = "Database Size and Allocated Growth Rate" -> 2
      [] item = "Tablespaces Size and Free Space" -> 3
      [] item = "Database Alert log" -> 4
      [] item = "Backup Status" -> 5
      [] OTHER -> 9

\* the order of the names as strings
NameRank(s) ==
    CASE s = "CDB1" -> 1 [] s = "CDB2" -> 2 [] s = "ORCL" -> 3 [] s = "PDB1" -> 4 [] OTHER -> 0

\* the sort key (System Name, Database, _sort_chk), compared as tuples are
KeyLE(a, b) ==
    \/ NameRank(a.sys) < NameRank(b.sys)
    \/ /\ a.sys = b.sys
       /\ \/ NameRank(a.db) < NameRank(b.db)
          \/ a.db = b.db /\ order_priority(a.item) <= order_priority(b.item)

RECURSIVE InsertRow(_, _)
InsertRow(sorted, x) ==
    IF sorted = << >> THEN << x >>
    ELSE IF KeyLE(Head(sorted), x) THEN << Head(sorted) >> \o InsertRow(Tail(sorted), x)
    ELSE << x >> \o sorted

\* df.sort_values(by=[...], kind="stable")
RECURSIVE sort_values(_)
sort_values(rows) ==
    IF rows = << >> THEN << >>
    ELSE InsertRow(sort_values(SubSeq(rows, 1, Len(rows) - 1)), rows[Len(rows)])

\* the ranges written in a column: rows r1..r2 (counted from 1) with the text; the code
\* merges the range when r2 > r1 and writes the one cell otherwise
Range(r1, r2, text) == [r1 |-> r1, r2 |-> r2, text |-> text, merged |-> r2 > r1]

RECURSIVE SysEnd(_, _, _)
\* line 502: while e+1 < n and the next row has the system's name
SysEnd(df, e, sys_cdb) ==
    IF e + 1 <= Len(df) /\ df[e + 1].sys = sys_cdb THEN SysEnd(df, e + 1, sys_cdb) ELSE e

\* DbEnd bounded by the end of the sheet instead of the end of the system block
RECURSIVE DbEnd_open(_, _, _, _)
DbEnd_open(df, k, e, pdb) ==
    IF k + 1 <= Len(df) /\ df[k + 1].db = pdb THEN DbEnd_open(df, k + 1, e, pdb) ELSE k
RECURSIVE DbEnd(_, _, _, _)
\* line 511: while k+1 <= e and the next row has the database's name
DbEnd(df, k, e, pdb) ==
    IF k + 1 <= e /\ df[k + 1].db = pdb THEN DbEnd(df, k + 1, e, pdb) ELSE k

RECURSIVE DbMerges(_, _, _)
\* lines 507-514: the loop over j within the block s..e
DbMerges(df, j, e) ==
    IF j > e THEN << >>
    ELSE LET k == DbEnd(df, j, e, df[j].db)
         IN  << Range(j, k, df[j].db) >> \o DbMerges(df, k + 1, e)

RECURSIVE SysMerges(_, _)
\* lines 498-516: the loop over s; returns the ranges of the two columns
SysMerges(df, s) ==
    IF s > Len(df) THEN [sys |-> << >>, db |-> << >>]
    ELSE LET e == SysEnd(df, s, df[s].sys)
             rest == SysMerges(df, e + 1)
         IN  [sys |-> << Range(s, e, df[s].sys) >> \o rest.sys,
              db  |-> DbMerges(df, s, e) \o rest.db]

_write_excel(rows) ==
    LET df == sort_values(rows)
        m == SysMerges(df, 1)
    IN  [written |-> TRUE, rows |-> df, sysmerge |-> m.sys, dbmerge |-> m.db]

\* lines 654-655: the summary and the spreadsheet are written
WriteReports ==
    /\ pc = "write"
    /\ files' = files \cup {F("", "summary_report.md"), F("", "pm_summary.xlsx")}
    /\ sheet' = _write_excel(excel_rows)
    /\ pc' = "done"
    /\ UNCHANGED << mods, db_dirs, di, cfg_text, cfg_sev, awr_selected, awr_text, awr_sev,
                    ts_text, ts_items, alert_csv_or_msg, a_sev, backup_text, b_sev, excel_rows,
                    summary_lines, steplog, faults, probe >>

Next ==
    \/ Begin \/ RunConfig \/ RunAwr \/ RunTablespace \/ RunAlert \/ RunBackup
    \/ BuildRows \/ WriteReports

Spec == Init /\ [][Next]_vars

\* the run and the classifier experiment together
SpecAll == (Init \/ InitSev) /\ [][Next \/ NextSev]_vars

-----------------------------------------------------------------------------
(* run_awr's scoring and selection, mini_pm.py:227-249, applied to the reports of   *)
(* one report folder in the order glob() lists them.                               *)

AwrNames == << "a.html", "b.html", "c.html", "d.html", "e.html", "f.html" >>

\* what a report's text holds: "DB Time: 2 hours", "DB Time: 90 minutes",
\* "DB Time: 120 mins", "DB Time: 90", "DB Time: 90 seconds", no DB Time token with a
\* top-events table of 500 s of waits or with none, and "DB Time: 1.2.3"; the reports
\* without a readable token have a modification time of late 2023, in epoch seconds
ReportKinds ==
    { [tok |-> "num", val |-> 2, unit |-> "h", wait |-> 0, mtime |-> 1700000000],
      [tok |-> "num", val |-> 90, unit |-> "m", wait |-> 0, mtime |-> 1700000000],
      [tok |-> "num", val |-> 120, unit |-> "m", wait |-> 0, mtime |-> 1700000000],
      [tok |-> "num", val |-> 90, unit |-> "", wait |-> 0, mtime |-> 1700000000],
      [tok |-> "num", val |-> 90, unit |-> "s", wait |-> 0, mtime |-> 1700000000],
      [tok |-> "none", val |-> 0, unit |-> "", wait |-> 500, mtime |-> 1700000000],
      [tok |-> "none", val |-> 0, unit |-> "", wait |-> 0, mtime |-> 1700000000],
      [tok |-> "bad", val |-> 0, unit |-> "", wait |-> 0, mtime |-> 1700000000] }

\* the *.html files of a report folder: at least one, each of some kind
Candidates ==
    UNION { { [ i \in 1..n |->
                 [name |-> AwrNames[i], tok |-> ks[i].tok, val |-> ks[i].val, unit |-> ks[i].unit,
                  wait |-> ks[i].wait, mtime |-> ks[i].mtime, data |-> CleanData] ] :
              ks \in [1..n -> ReportKinds] } : n \in 1..MaxHtmls }

\* the folder before run_awr is called on it
InitAwr ==
    /\ Idle
    /\ \E hs \in Candidates : \E imp \in BOOLEAN :
          probe = [item |-> "select", inp |-> [folder |-> TRUE, htmls |-> hs, copy_fail_at |-> 0],
                   analyzer |-> imp, done |-> FALSE, raised |-> FALSE, scores |-> << >>,
                   best |-> "", copies |-> << >>]

\* lines 227-249: the scores in the order of enumeration, the report selected and the
\* copies made, or the exception of score_awr
SelectAwr ==
    /\ probe.item = "select" /\ ~probe.done
    /\ probe' = IF run_awr_raises(probe.inp)
                THEN [probe EXCEPT !.done = TRUE, !.raised = TRUE]
                ELSE [probe EXCEPT !.done = TRUE,
                         !.scores = [ i \in 1..Len(probe.inp.htmls) |->
                                        score_awr(probe.inp.htmls[i], probe.analyzer) ],
                         !.best = run_awr(probe.inp, probe.analyzer).best,
                         !.copies = awr_copies(probe.inp, probe.analyzer)]
    /\ UNCHANGED orch_vars

SpecAwr == InitAwr /\ [][SelectAwr]_vars

-----------------------------------------------------------------------------
(* The aggregation of an alert log, by run_alert_log (mini_pm.py:342-372) and by    *)
(* alert_log_check_mapped (parse_alerts and the sort of main), run at the local     *)
(* time 2024-01-11 00:00 with a window of two days.                                 *)

\* the logs: their timestamp lines are 2024-01-09T00:00:00+07:00 (the start of the
\* window), 2024-01-08T00:00:00+07:00 (a day before it), 2024-01-08T22:00:00+00:00 (five
\* hours within it), 2024-01-09T18:00:00, 2024-01-09 08:00:00 and Wed Jan 10 00:00:00
\* 2024; their error lines are of two codes, with a message or without
AlertLogs ==
    LET ts(f, w, o) == [k |-> "ts", ts |-> [fmt |-> f, wall |-> w, off |-> o], code |-> "",
                        info |-> ""]
        lines == { ts("T", 192, LocalOff), ts("T", 168, LocalOff), ts("T", 190, 0),
                   ts("T", 210, NoOff), ts("sp", 200, NoOff), ts("c", 216, NoOff) }
                 \cup [k : {"ora"}, ts : {NoTs}, code : {"ORA-00600", "ORA-01555"},
                       info : {"", "msg"}]
    IN  SeqsUpTo(lines, MaxLog)

NoAgg == [c \in {} |-> 0]

InitAlert ==
    /\ Idle
    /\ \E l \in AlertLogs :
          probe = [item |-> "log", log |-> l, now |-> 240, days |-> 2,
                   parsed |-> FALSE, pagg |-> NoAgg, items |-> << >>,
                   ran |-> FALSE, agg |-> NoAgg, rows |-> << >>]

\* alert_log_check_mapped.main, lines 96-106
ParseAlerts ==
    /\ probe.item = "log" /\ ~probe.parsed
    /\ LET agg == parse_alerts(probe.log, [agg |-> NoAgg, cur |-> NoTs]) IN
       probe' = [probe EXCEPT !.parsed = TRUE, !.pagg = agg, !.items = alert_sorted(agg)]
    /\ UNCHANGED orch_vars

\* run_alert_log, lines 342-372
AggregateAlerts ==
    /\ probe.item = "log" /\ ~probe.ran
    /\ LET agg == alert_loop(probe.log, probe.now - 24 * probe.days,
                             [agg |-> NoAgg, cur |-> NoTs]) IN
       probe' = [probe EXCEPT !.ran = TRUE, !.agg = agg, !.rows = alert_sorted(agg)]
    /\ UNCHANGED orch_vars

SpecAlert == InitAlert /\ [][ParseAlerts \/ AggregateAlerts]_vars

-----------------------------------------------------------------------------
(* mini_pm.find_first_level_used, lines 51-76.  The root is the sequence of   *)
(* its entries in the order iterdir() yields them.  An entry is [pre, is_dir, *)
(* markers, listable, kids]: pre is the first three characters of its name,   *)
(* markers tells whether one of the paths auto_collection, report, log exists *)
(* in it, listable whether iterdir() on it succeeds, and kids lists its       *)
(* subdirectories, each by whether one of the three paths exists in it.  The  *)
(* result is 0 for the root and i for the i-th entry.                         *)

\* str.upper() and str.lower() on the first three characters of a name
Upper3(pre) == CASE pre \in {"CDB", "cdb", "Cdb"} -> "CDB"
                 [] pre \in {"pm_", "PM_", "Pm_"} -> "PM_"
                 [] OTHER -> pre
Lower3(pre) == CASE pre \in {"CDB", "cdb", "Cdb"} -> "cdb"
                 [] pre \in {"pm_", "PM_", "Pm_"} -> "pm_"
                 [] OTHER -> pre

\* the indices of the entries that are directories
children(root) == { i \in 1..Len(root) : root[i].is_dir }

\* lines 57-65: a single child directory, some subdirectory of which has a marker; a
\* child that cannot be listed has no subdirectories
wrapper_rule(root) ==
    /\ Cardinality(children(root)) = 1
    /\ LET child == root[CHOOSE i \in children(root) : TRUE]
           grandkids == IF child.listable THEN child.kids ELSE << >>
       IN  \E g \in 1..Len(grandkids) : grandkids[g]

\* find_first_level_used looking for the pm_ children before the marker subfolders
find_first_level_used_pm_first(root) ==
    LET cdbs == { i \in children(root) : Upper3(root[i].pre) = "CDB" }
        pm_like == { i \in children(root) : Lower3(root[i].pre) = "pm_" }
    IN  IF cdbs # {} THEN 0
        ELSE IF wrapper_rule(root) THEN CHOOSE i \in children(root) : TRUE
        ELSE IF pm_like # {} THEN CHOOSE i \in pm_like : \A j \in pm_like : i <= j
        ELSE 0

find_first_level_used(root) ==
    LET cdbs == { i \in children(root) : Upper3(root[i].pre) = "CDB" }
        pm_like == { i \in children(root) : Lower3(root[i].pre) = "pm_" }
    IN  IF cdbs # {} THEN 0
        ELSE IF wrapper_rule(root) THEN CHOOSE i \in children(root) : TRUE
        ELSE IF \E i \in children(root) : root[i].markers THEN 0
        ELSE IF pm_like # {} THEN CHOOSE i \in pm_like : \A j \in pm_like : i <= j
        ELSE 0

-----------------------------------------------------------------------------
(* The checks of the helper modules and the discovery of the first level, *)
(* each applied to one drawn input.                                        *)

\* backup logs: banner at hour 200 or none, file time 400, backups at hours 31, 32 and
\* 220 and a timestamp strptime rejects; thresholds of 7 days and 1 day
BackupProbes ==
    [item : {"bfile"},
     content : [readable : BOOLEAN, banner : {None, 200}, mtime : {400},
                stamps : SeqsUpTo({None, 31, 32, 220}, 2)],
     days : {7, 1}, override : {None, 201},
     done : {FALSE}, kind : {""}, line : {<< >>}]

\* backup_check.check_file on one log
CheckBackupFile ==
    /\ probe.item = "bfile" /\ ~probe.done
    /\ LET kind == check_file_kind(probe.content, probe.days, probe.override) IN
       probe' = [probe EXCEPT !.done = TRUE, !.kind = kind,
                    !.line = check_file([name |-> "backup_db.log", kind |-> kind])]
    /\ UNCHANGED orch_vars

\* root folders: directories whose names begin with the prefixes in some case or with
\* neither, with and without markers, listable or not, and plain files
RootEntries ==
    [pre : {"CDB", "cdb", "pm_", "PM_", "dat"}, is_dir : {TRUE}, markers : BOOLEAN,
     listable : {TRUE}, kids : SeqsUpTo(BOOLEAN, MaxKids)]
    \cup [pre : {"CDB", "pm_", "dat"}, is_dir : {TRUE}, markers : BOOLEAN,
          listable : {FALSE}, kids : {<< TRUE >>}]
    \cup [pre : {"CDB", "pm_", "dat"}, is_dir : {FALSE}, markers : {FALSE},
          listable : {FALSE}, kids : {<< >>}]
RootProbes ==
    [item : {"root"}, root : SeqsUpTo(RootEntries, MaxEntries), done : {FALSE}, level : {0}]

\* find_first_level_used on one root
FindFirstLevel ==
    /\ probe.item = "root" /\ ~probe.done
    /\ probe' = [probe EXCEPT !.done = TRUE, !.level = find_first_level_used(probe.root)]
    /\ UNCHANGED orch_vars

\* tables of an AWR report as the parsers return them, of up to MaxRows rows
PgaRows == [factor : {None, 100, 120}, extra : {None, 10, 100}, size : {None, 100}]
ThreadRows == [stat : {"log switches (derived)", "redo size", "", NotText},
               per_hour : {None, 2, 6}]
TableProbes ==
    [item : {"pga"}, data : SeqsUpTo(PgaRows, MaxRows), mins : {0}, done : {FALSE},
     kind : {""}]
    \cup [item : {"thread"}, data : SeqsUpTo(ThreadRows, MaxRows), mins : {0},
          done : {FALSE}, kind : {""}]
    \cup [item : {"events"},
          data : { c \o v : c \in CpuRows, v \in SeqsUpTo(EventRows, MaxRows) },
          mins : {30 * Scale, 120 * Scale}, done : {FALSE}, kind : {""}]

\* the analysis of one table of an AWR report
AnalyzePga ==
    /\ probe.item = "pga" /\ ~probe.done
    /\ probe' = [probe EXCEPT !.done = TRUE, !.kind = pga_advisory_kind(probe.data)]
    /\ UNCHANGED orch_vars
AnalyzeThread ==
    /\ probe.item = "thread" /\ ~probe.done
    /\ probe' = [probe EXCEPT !.done = TRUE, !.kind = thread_activity_kind(probe.data)]
    /\ UNCHANGED orch_vars
AnalyzeEvents ==
    /\ probe.item = "events" /\ ~probe.done
    /\ probe' = [probe EXCEPT !.done = TRUE,
                    !.kind = top10_events_kind(probe.data, probe.mins)]
    /\ UNCHANGED orch_vars

\* dumps with up to two control-file paths and other words, in and after the section
CtlWords == {"+DATA/ORCL/CONTROLFILE/current.261", "+FRA/ORCL/CONTROLFILE/current.256",
             "db_name"}
CtlProbes ==
    [item : {"ctl"},
     content : [section : SeqsUpTo(CtlWords, MaxWords), rest : SeqsUpTo(CtlWords, MaxWords)],
     done : {FALSE}, line : {<< >>}]

\* config_check._check_controlfile_redundancy on one dump
CheckControlfile ==
    /\ probe.item = "ctl" /\ ~probe.done
    /\ probe' = [probe EXCEPT !.done = TRUE,
                    !.line = _check_controlfile_redundancy(
                                 Cardinality(controlfile_paths(probe.content)))]
    /\ UNCHANGED orch_vars

\* tablespace reports of up to MaxRows data rows
TsProbes == [item : {"tsfile"}, rows : SeqsUpTo(TsRows, MaxRows), done : {FALSE}, text : {<< >>}]

\* table_space_check.check_tablespace_free_space on one report
CheckTablespace ==
    /\ probe.item = "tsfile" /\ ~probe.done
    /\ probe' = [probe EXCEPT !.done = TRUE, !.text = check_tablespace_free_space(probe.rows)]
    /\ UNCHANGED orch_vars

\* versions found in a dump and target strings: equal and different in the major and in
\* the minor component, with further components, with text behind the number, without
\* minor component and with no number at all
FileVersions == {NoVer, << 19, 27 >>, << 19, 27, 0, 0, 0 >>, << 19, 19, 0, 0, 0 >>,
                 << 19, 28 >>, << 12, 27 >>, << 19, 0, 0 >>}
TargetStrings ==
    [nums : {NoVer, << 19 >>, << 19, 27 >>, << 19, 27, 1 >>, << 19, 19 >>, << 19, 28 >>,
             << 12, 27 >>},
     tail : {"", " (APR 2025)"}]
VersionProbes ==
    [item : {"ver"}, file : FileVersions, target : TargetStrings, done : {FALSE},
     line : {<< >>}]

\* the version comparison of config_check.check_oracle_config
CheckVersion ==
    /\ probe.item = "ver" /\ ~probe.done
    /\ probe' = [probe EXCEPT !.done = TRUE, !.line = patches_line(probe.file, probe.target)]
    /\ UNCHANGED orch_vars

CheckProbes ==
    BackupProbes \cup RootProbes \cup TableProbes \cup CtlProbes \cup TsProbes
    \cup VersionProbes

InitChecks == Idle /\ probe \in CheckProbes

NextChecks ==
    \/ CheckBackupFile \/ FindFirstLevel
    \/ AnalyzePga \/ AnalyzeThread \/ AnalyzeEvents
    \/ CheckControlfile \/ CheckTablespace \/ CheckVersion

SpecChecks == InitChecks /\ [][NextChecks]_vars

-----------------------------------------------------------------------------
(* The capture of printed output by run_config_check, run_awr and             *)
(* run_tablespace_checks, mini_pm.py:205-217, 254-267 and 294-309.  The probe  *)
(* is [item, runner, entry, stdout, saved, at, left, calls, printed_to]:       *)
(* entry is the stream sys.stdout names when the runner is entered, stdout the *)
(* stream it names now (Buffer for a StringIO the runner made), saved the      *)
(* runner's local _stdout (Unbound before its assignment), at the position in  *)
(* the runner, left the number of wrapped calls still to make, calls the       *)
(* outcomes of the calls made and printed_to the stream that took the text     *)
(* run_all printed after the runner.                                           *)

Buffer == "StringIO"
Unbound == "unbound"
Streams == {"console", "TeeWriter"}
Runners == {"run_config_check", "run_awr", "run_tablespace_checks"}

\* the handler's "try: sys.stdout = _stdout / except Exception: pass" with the
\* assignment left out
restore_in_handler_skip(saved, stdout) == stdout

\* lines 211-212, 263-264, 304-305: "try: sys.stdout = _stdout / except Exception: pass";
\* reading the unbound local raises UnboundLocalError, which the inner except swallows
restore_in_handler(saved, stdout) == IF saved = Unbound THEN stdout ELSE saved

InitCapture ==
    /\ Idle
    /\ \E r \in Runners : \E e \in Streams : \E n \in 1..(MaxPdbs + 1) :
          /\ r = "run_tablespace_checks" \/ n = 1
          /\ probe = [item |-> "capture", runner |-> r, entry |-> e, stdout |-> e,
                       saved |-> Unbound, at |-> "entry", left |-> n, calls |-> << >>,
                       printed_to |-> ""]

\* the paths that make no wrapped call: the input is missing (lines 200-202, 221-226,
\* 285-288) or the helper module is not importable (lines 214, 266, 310)
ReturnEarly ==
    /\ probe.item = "capture" /\ probe.at = "entry"
    /\ \E why \in {"skipped", "not importable"} :
          probe' = [probe EXCEPT !.at = "returned", !.calls = << why >>]
    /\ UNCHANGED orch_vars

\* the runner reaches its try statement, for the next file in run_tablespace_checks
EnterTry ==
    /\ probe.item = "capture" /\ probe.at \in {"entry", "next"} /\ probe.left > 0
    /\ probe' = [probe EXCEPT !.at = IF probe.runner = "run_awr" THEN "analyze" ELSE "try"]
    /\ UNCHANGED orch_vars

\* run_awr, line 256: awr_analyzer.analyze(best) runs inside the try and before the
\* redirection; it returns or raises
Analyze ==
    /\ probe.item = "capture" /\ probe.at = "analyze"
    /\ \/ probe' = [probe EXCEPT !.at = "try"]
       \/ probe' = [probe EXCEPT !.at = "handler",
                                 !.calls = Append(probe.calls, "raised before")]
    /\ UNCHANGED orch_vars

\* lines 207, 257, 296-297: _stdout = sys.stdout; sys.stdout = io.StringIO()
Redirect ==
    /\ probe.item = "capture" /\ probe.at = "try"
    /\ probe' = [probe EXCEPT !.saved = probe.stdout, !.stdout = Buffer, !.at = "call"]
    /\ UNCHANGED orch_vars

\* lines 208-209, 258-259, 298-300: the wrapped call returns and the stream is restored
CallReturns ==
    /\ probe.item = "capture" /\ probe.at = "call"
    /\ probe' = [probe EXCEPT !.stdout = probe.saved, !.at = "next",
                              !.left = probe.left - 1,
                              !.calls = Append(probe.calls, "returned")]
    /\ UNCHANGED orch_vars

\* the wrapped call raises while the stream is redirected
CallRaises ==
    /\ probe.item = "capture" /\ probe.at = "call"
    /\ probe' = [probe EXCEPT !.at = "handler", !.calls = Append(probe.calls, "raised after")]
    /\ UNCHANGED orch_vars

\* the except clause of the runner
Handler ==
    /\ probe.item = "capture" /\ probe.at = "handler"
    /\ probe' = [probe EXCEPT !.stdout = restore_in_handler(probe.saved, probe.stdout),
                              !.at = "next", !.left = probe.left - 1]
    /\ UNCHANGED orch_vars

\* the runner writes its file and returns
Return ==
    /\ probe.item = "capture" /\ probe.at = "next" /\ probe.left = 0
    /\ probe' = [probe EXCEPT !.at = "returned"]
    /\ UNCHANGED orch_vars

\* run_all prints the runner's text, lines 561, 567, 572
PrintAfter ==
    /\ probe.item = "capture" /\ probe.at = "returned"
    /\ probe' = [probe EXCEPT !.at = "printed", !.printed_to = probe.stdout]
    /\ UNCHANGED orch_vars

NextCapture ==
    \/ ReturnEarly \/ EnterTry \/ Analyze \/ Redirect \/ CallReturns \/ CallRaises
    \/ Handler \/ Return \/ PrintAfter

SpecCapture == InitCapture /\ [][NextCapture]_vars

-----------------------------------------------------------------------------
(* pm_app_gui.py: PMApp.run_clicked and its worker thread, lines 137-193.  The *)
(* probe is [item, run_btn, open_btn, stdout, stderr, workers, pending,        *)
(* clicks, ended]: the states of the two buttons, the streams sys.stdout and   *)
(* sys.stderr name, the worker threads started (each [at, orig_out, orig_err,  *)
(* ok], at being its position), the number of callbacks console.after(0, ...)  *)
(* has queued for the main thread that enable the Open button, the number of   *)
(* clicks on Run so far, and the outcomes of the runs that ended.              *)

NORMAL == "normal"
DISABLED == "disabled"
\* the TeeWriter worker w installs
Tee(w) == << "TeeWriter", w >>

\* lines 165-166 with the Run button left as it is
after_accept_run_enabled(g) == [g EXCEPT !.open_btn = DISABLED]

\* lines 165-166: self.run_btn.config(state=tk.DISABLED); self.open_btn.config(state=tk.DISABLED)
after_accept(g) == [g EXCEPT !.run_btn = DISABLED, !.open_btn = DISABLED]

InitGui ==
    /\ Idle
    /\ probe = [item |-> "gui", run_btn |-> NORMAL, open_btn |-> DISABLED,
                 stdout |-> "stdout", stderr |-> "stderr", workers |-> << >>,
                 pending |-> 0, clicks |-> 0, ended |-> << >>]

\* a click on Run that the validation of lines 139-156 turns down, or a click on the
\* disabled button, which Tk does not deliver
ClickWithoutRun ==
    /\ probe.item = "gui" /\ probe.clicks < MaxClicks
    /\ probe' = [probe EXCEPT !.clicks = probe.clicks + 1]
    /\ UNCHANGED orch_vars

\* lines 158-166 and 192-193 on the main thread: the buttons are disabled and the worker is started
ClickAccepted ==
    /\ probe.item = "gui" /\ probe.clicks < MaxClicks /\ probe.run_btn = NORMAL
    /\ probe' = [after_accept(probe) EXCEPT
                    !.clicks = probe.clicks + 1,
                    !.workers = Append(probe.workers,
                                       [at |-> "started", orig_out |-> "", orig_err |-> "",
                                        ok |-> FALSE])]
    /\ UNCHANGED orch_vars

\* lines 170-173 on the worker thread
WorkerRedirect(w) ==
    /\ probe.workers[w].at = "started"
    /\ probe' = [probe EXCEPT !.stdout = Tee(w), !.stderr = Tee(w),
                              !.workers[w].at = "run_all",
                              !.workers[w].orig_out = probe.stdout,
                              !.workers[w].orig_err = probe.stderr]

\* lines 175-182: run_all returns and the worker queues the callback for the Open button
RunAllReturns(w) ==
    /\ probe.workers[w].at = "run_all"
    /\ probe' = [probe EXCEPT !.pending = probe.pending + 1,
                              !.workers[w].at = "finally", !.workers[w].ok = TRUE]

\* lines 183-186: run_all raises
RunAllRaises(w) ==
    /\ probe.workers[w].at = "run_all"
    /\ probe' = [probe EXCEPT !.workers[w].at = "finally", !.workers[w].ok = FALSE]

\* lines 188-189: sys.stdout = orig_out; sys.stderr = orig_err
WorkerRestore(w) ==
    /\ probe.workers[w].at = "finally"
    /\ probe' = [probe EXCEPT !.stdout = probe.workers[w].orig_out,
                              !.stderr = probe.workers[w].orig_err,
                              !.workers[w].at = "restored"]

\* line 190: self.run_btn.config(state=tk.NORMAL), and the thread ends
WorkerEnablesRun(w) ==
    /\ probe.workers[w].at = "restored"
    /\ probe' = [probe EXCEPT !.run_btn = NORMAL, !.workers[w].at = "ended",
                              !.ended = Append(probe.ended, probe.workers[w].ok)]

WorkerStep ==
    /\ probe.item = "gui"
    /\ \E w \in 1..Len(probe.workers) :
          \/ WorkerRedirect(w) \/ RunAllReturns(w) \/ RunAllRaises(w)
          \/ WorkerRestore(w) \/ WorkerEnablesRun(w)
    /\ UNCHANGED orch_vars

\* the main thread runs a queued callback of line 182
OpenEnabled ==
    /\ probe.item = "gui" /\ probe.pending > 0
    /\ probe' = [probe EXCEPT !.open_btn = NORMAL, !.pending = probe.pending - 1]
    /\ UNCHANGED orch_vars

NextGui == ClickWithoutRun \/ ClickAccepted \/ WorkerStep \/ OpenEnabled

SpecGui == InitGui /\ [][NextGui]_vars

-----------------------------------------------------------------------------
(* Claims about the classifiers, checked under SpecSev *)

Classed == probe.sev # 0

\* the rows check_tablespace_free_space flags
FlaggedPcts == { LowSpace(probe.rows)[i].pct : i \in 1..Len(LowSpace(probe.rows)) }

\* C6: the Tablespaces severity derived from the tablespace check's output is 1 when a
\* flagged tablespace has free% below 5, 2 when the flagged free% is in [5,10], 3 when a
\* tablespace is flagged with free% above 10, and 4 when no tablespace is flagged.
C6_SeverityFollowsFreePct ==
    (Classed /\ probe.item = "ts" /\ probe.kind = "ok") =>
        probe.sev = IF \E x \in FlaggedPcts : x < 5 * Scale THEN 1
                    ELSE IF \E x \in FlaggedPcts : x <= 10 * Scale THEN 2
                    ELSE IF FlaggedPcts # {} THEN 3
                    ELSE 4

\* the events analyze_top10_foreground_events flags, and the hit ratios
\* analyze_instance_efficiency reports
FlaggedEvents ==
    LET d == probe.data
        cpu == { i \in 1..Len(d.events) : d.events[i].event = "DB CPU" }
        db_cpu_time == IF cpu = {} THEN 0 ELSE d.events[Min(cpu)].pct
    IN  IF d.mins < 50 * Scale THEN {}
        ELSE { Round1(d.events[i].pct) : i \in { k \in 1..Len(d.events) :
                   /\ d.events[k].event # "DB CPU"
                   /\ d.events[k].pct # None
                   /\ d.events[k].pct > db_cpu_time } }
ReportedHits ==
    { probe.data.eff[i].value : i \in { k \in 1..Len(probe.data.eff) :
          probe.data.eff[k].value < 70 * Scale } }

\* C7: severity_awr never returns 1; it returns 2 whenever any flagged non-CPU wait
\* event has %DB Time >= 50; otherwise 3 whenever a flagged non-CPU wait event has
\* %DB Time in [20,50), or any reported hit ratio is below 50, or the concerning-SQL
\* marker is present; otherwise 4.
C7_AwrSeverityRule ==
    (Classed /\ probe.item = "awr" /\ probe.kind = "ok") =>
        probe.sev = IF \E x \in FlaggedEvents : x >= 50 * Scale THEN 2
                    ELSE IF \/ \E x \in FlaggedEvents : x >= 20 * Scale
                            \/ \E x \in ReportedHits : x < 50 * Scale
                            \/ probe.data.sql = "flag" THEN 3
                    ELSE 4

\* C8 as stated: for every classifier, a text that contains no failure marker gets
\* severity 4.
C8_NoMarkerIsNormal ==
    (Classed /\ ~HasWord(probe.text, FAIL)) => probe.sev = 4

\* C8 as amended: a text that contains no failure marker gets severity 4 from the
\* configuration, performance, tablespace and backup classifiers; from the alert-log
\* classifier it gets severity 4 exactly when it has at most one non-blank line, and
\* severity 1, 2 or 3 when it has a line below the first.
C8_NoMarkerIsNormalButAlertRows ==
    (Classed /\ ~HasWord(probe.text, FAIL)) =>
        IF probe.item = "alert"
        THEN /\ probe.sev \in 1..4
             /\ probe.sev = 4 <=> Len(NonBlank(probe.text)) <= 1
        ELSE probe.sev = 4

\* an alert report with rows and no failure marker, classified below 4
C8_Witness ==
    /\ Classed /\ probe.item = "alert" /\ probe.kind = "ok"
    /\ ~HasWord(probe.text, FAIL) /\ Len(NonBlank(probe.text)) > 1 /\ probe.sev = 3

\* the lines of a report that start with the failure marker
FailLines(text) ==
    Cardinality({ i \in 1..Len(NonBlank(text)) : NonBlank(text)[i][1].w = FAIL })

\* C9 as stated: when a step degrades to a failed marker (an exception of the check,
\* an unreadable file, a helper module that is not importable), the severity is 4 for
\* the Configuration, Performance and Tablespaces steps and 2 for the Alert-log and
\* Backup steps.
C9_FailedMarkerSeverity ==
    (Classed /\ probe.kind = "failed") =>
        probe.sev = IF probe.item \in {"cfg", "awr", "ts"} THEN 4 ELSE 2

\* C9 as amended: when a step degrades to a failed marker, the severity is 4 for the
\* Configuration and Performance steps, 3 for the Tablespaces step, 2 for the Alert-log
\* step, and for the Backup step 2 when one or two lines of its report start with the
\* failure marker and 1 when three do.
C9_FailedMarkerSeverityByStep ==
    (Classed /\ probe.kind = "failed") =>
        /\ HasWord(probe.text, FAIL)
        /\ probe.sev = CASE probe.item = "cfg"    -> 4
                         [] probe.item = "awr"    -> 4
                         [] probe.item = "ts"     -> 3
                         [] probe.item = "alert"  -> 2
                         [] probe.item = "backup" -> IF FailLines(probe.text) >= 3 THEN 1 ELSE 2

\* a tablespace check that raised, classified 3
C9_Witness ==
    /\ Classed /\ probe.item = "ts" /\ probe.kind = "failed"
    /\ HasWord(probe.text, FAIL) /\ probe.sev = 3

\* the control-file check, the redo-log check of the report printed a line that is
\* not its "Redundancy" line (one path or none, one group or none)
CtrlNotRedundant(text) ==
    \E i \in 1..Len(text) : \E p \in 0..1 : text[i] = _check_controlfile_redundancy(p)
RedoNotRedundant(text) ==
    \E i \in 1..Len(text) : \E g \in 0..1 : text[i] = _check_redo_redundancy(g)

\* C11: severity_config returns 1 when both the control-file check and the redo-log
\* check report that there is no redundancy, 2 when exactly one of them does, and 4 in
\* every other case (a patch issue alone, a skipped or failed check); it returns 3 for
\* no text.
C11_ConfigSeverityRule ==
    (Classed /\ probe.item = "cfg") =>
        /\ probe.sev \in {1, 2, 4}
        /\ probe.kind # "free" =>
              probe.sev = IF CtrlNotRedundant(probe.text) /\ RedoNotRedundant(probe.text) THEN 1
                          ELSE IF CtrlNotRedundant(probe.text) \/ RedoNotRedundant(probe.text) THEN 2
                          ELSE 4

\* a report with a patch issue and a single control file, classified 2, the redo logs
\* being redundant
C11_Witness ==
    /\ Classed /\ probe.item = "cfg" /\ probe.kind = "ok" /\ probe.sev = 2
    /\ CtrlNotRedundant(probe.text) /\ ~RedoNotRedundant(probe.text)
    /\ \E i \in 1..Len(probe.text) : probe.text[i][1].w = FAIL /\ probe.text[i][2].w = "Patches"

\* the rows of an alert result: its non-blank lines below the first one, the header
AlertRows(text) == IF NonBlank(text) = << >> THEN << >> ELSE Tail(NonBlank(text))

\* the text is one of the messages run_alert_log returns in place of a result: its
\* first character that is not white space is the failure marker
IsFailureMessage(text) == NonBlank(text) # << >> /\ NonBlank(text)[1][1].w = FAIL

\* C12: for an alert result (a text that is not a failure message), severity_alert
\* returns 4 when the result is empty or has a header and no rows; otherwise 1 when a row
\* contains ORA-00600 or ORA-07445, also when rows contain high-severity codes; otherwise
\* 2 when a row contains a code of the high-severity set; otherwise 3, at least one row
\* existing.
C12_AlertSeverityRule ==
    (Classed /\ probe.item = "alert" /\ ~IsFailureMessage(probe.text)) =>
        LET rows == AlertRows(probe.text)
            has(codes) == \E i \in 1..Len(rows) : \E j \in 1..Len(rows[i]) : rows[i][j].w \in codes
        IN  probe.sev = IF rows = << >> THEN 4
                        ELSE IF has(S1) THEN 1
                        ELSE IF has(S2) THEN 2
                        ELSE 3

\* a result with a row of a critical code and a row of a high-severity code, classified 1
C12_Witness ==
    /\ Classed /\ probe.item = "alert" /\ probe.kind = "ok" /\ probe.sev = 1
    /\ probe.text[1] = AlertHeader
    /\ \E i, k \in 2..Len(probe.text) :
          probe.text[i][1].w = "ORA-00600" /\ probe.text[k][1].w = "ORA-04031"

\* C13: severity_backup returns 1 when at least three lines of the backup report are
\* failed lines (they start with the failure marker), 2 when one or two are, and 4 when
\* none is or the report is empty; it returns 3 for no text.
C13_BackupSeverityRule ==
    (Classed /\ probe.item = "backup") =>
        /\ probe.sev \in {1, 2, 4}
        /\ probe.sev = IF FailLines(probe.text) >= 3 THEN 1
                        ELSE IF FailLines(probe.text) >= 1 THEN 2
                        ELSE 4

\* a report of three logs, each with a failed line, classified 1
C13_Witness ==
    /\ Classed /\ probe.item = "backup" /\ probe.kind # "free" /\ probe.sev = 1
    /\ Len(probe.text) = 3 /\ FailLines(probe.text) = 3

-----------------------------------------------------------------------------
(* Claims about the selection of the AWR report, checked under SpecAwr *)

\* run_awr has scored the folder's reports, or has raised
Selected == probe.item = "select" /\ probe.done
Htmls == probe.inp.htmls

\* the DB Time of a report's token in seconds as the scoring function is described:
\* hours x 3600, minutes x 60, seconds x 1, and minutes when the unit is absent
DbTimeSeconds(h) ==
    IF h.unit = "h" THEN h.val * 3600 ELSE IF h.unit = "s" THEN h.val ELSE h.val * 60

\* the reports whose text has a DB Time token with a number
WithToken == { i \in 1..Len(Htmls) : Htmls[i].tok = "num" }

\* C14: whenever at least one report of the folder contains a DB Time token, the report
\* run_awr selects for analysis is one with the greatest DB Time, in seconds, among the
\* reports that contain the token.
C14_SelectsGreatestDbTime ==
    (Selected /\ WithToken # {}) =>
        \E i \in WithToken :
            /\ probe.best = Htmls[i].name
            /\ \A j \in WithToken : DbTimeSeconds(Htmls[j]) <= DbTimeSeconds(Htmls[i])

\* C15: score_awr gives a report with a DB Time token the token's value in seconds:
\* value x 3600 for hours, value x 60 for minutes, the value for seconds, and value x 60
\* when the unit is absent; so "DB Time: 2 hours" scores above "DB Time: 90 minutes".
C15_ScoreNormalisesToSeconds ==
    (Selected /\ ~probe.raised) =>
        /\ \A i \in WithToken : probe.scores[i] = DbTimeSeconds(Htmls[i])
        /\ \A i, j \in WithToken :
              (Htmls[i].val = 2 /\ Htmls[i].unit = "h" /\ Htmls[j].val = 90 /\ Htmls[j].unit = "m")
                 => probe.scores[i] > probe.scores[j]

\* the place of candidate i in the order by score descending, the candidates of equal
\* score in the order of enumeration
ScoreRank(i) ==
    1 + Cardinality({ j \in 1..Len(Htmls) :
                        \/ probe.scores[j] > probe.scores[i]
                        \/ probe.scores[j] = probe.scores[i] /\ j < i })

\* C16: for n >= 1 candidate reports run_awr copies exactly min(3, n) of them, the k-th
\* copy being the candidate of rank k by score descending (equal scores in the order of
\* enumeration) under the prefix (top<k>_<score in whole minutes>), and the copy of rank
\* 1 is the report that is analysed.
C16_TopThreeCopied ==
    Selected =>
        /\ Len(probe.copies) = IF Len(Htmls) < 3 THEN Len(Htmls) ELSE 3
        /\ \A k \in 1..Len(probe.copies) : \E i \in 1..Len(Htmls) :
              /\ ScoreRank(i) = k
              /\ probe.copies[k] = << k, probe.scores[i] \div 60, Htmls[i].name >>
        /\ probe.best = probe.copies[1][3]

-----------------------------------------------------------------------------
(* Claims about the aggregation of an alert log, checked under SpecAlert *)

Log == probe.log
Max(S) == CHOOSE x \in S : \A y \in S : y <= x
AllForms == {"T", "sp", "c"}

\* the timestamp that governs line i: the last line before it that is a timestamp for
\* a reader of the forms fmts, NoTs when there is none
Governing(i, fmts) ==
    LET js == { j \in 1..(i - 1) : Log[j].k = "ts" /\ Log[j].ts.fmt \in fmts }
    IN  IF js = {} THEN NoTs ELSE Log[Max(js)].ts

LogCodes == { Log[i].code : i \in { j \in 1..Len(Log) : Log[j].k = "ora" } }
Occurrences(c) == { i \in 1..Len(Log) : Log[i].k = "ora" /\ Log[i].code = c }
\* the occurrences of c whose timestamp, in local time, is not before now minus
\* alert_days days
InWindow(c) ==
    { i \in Occurrences(c) :
        /\ Governing(i, AllForms) # NoTs
        /\ to_local(Governing(i, AllForms)) >= probe.now - 24 * probe.days }

\* the record of c counts the occurrences occs and has the earliest of their timestamps
\* as first, none only when no occurrence has one
RecordRight(agg, c, occs, fmts) ==
    LET stamped == { i \in occs : Governing(i, fmts) # NoTs } IN
    /\ agg[c].count = Cardinality(occs)
    /\ IF stamped = {} THEN agg[c].first = NoTs
       ELSE /\ agg[c].first \in { Governing(i, fmts) : i \in stamped }
            /\ \A i \in stamped : to_local(agg[c].first) <= to_local(Governing(i, fmts))

\* C17: for every alert log and every error code in it, the aggregated record's count is
\* the number of occurrences of the code (for run_alert_log: of those within the window)
\* and its first occurrence is the earliest timestamp among those occurrences, in
\* whatever order they appear in the file; an occurrence without timestamp never wins as
\* first over one with a timestamp.
C17_CountAndEarliestFirst ==
    /\ probe.parsed =>
          /\ DOMAIN probe.pagg = LogCodes
          /\ \A c \in LogCodes : RecordRight(probe.pagg, c, Occurrences(c), {"T"})
    /\ probe.ran =>
          /\ DOMAIN probe.agg = { c \in LogCodes : InWindow(c) # {} }
          /\ \A c \in DOMAIN probe.agg : RecordRight(probe.agg, c, InWindow(c), AllForms)

\* C18: run_alert_log aggregates an error-code entry if and only if the timestamp that
\* governs it, brought to local time (a naive one taken as local, one with an offset
\* converted), is not earlier than now minus alert_days days: an entry at the boundary
\* is counted, an entry one day older is not.
C18_WindowFilter ==
    probe.ran =>
        \A c \in LogCodes :
            (IF c \in DOMAIN probe.agg THEN probe.agg[c].count ELSE 0) = Cardinality(InWindow(c))

\* a code with an entry exactly at the start of the window, which is counted, and an
\* entry one day older, which is not
C18_Witness ==
    /\ probe.ran
    /\ \E c \in DOMAIN probe.agg :
          /\ probe.agg[c].count = 1 /\ Cardinality(Occurrences(c)) = 2
          /\ to_local(probe.agg[c].first) = probe.now - 24 * probe.days
          /\ \E i \in Occurrences(c) :
                to_local(Governing(i, AllForms)) = probe.now - 24 * probe.days - 24

\* the records of agg in the order seq: ascending by the time of their first occurrence,
\* the ones without first occurrence last, the ones of the same first occurrence by code
Chronological(agg, seq) ==
    \A q \in 1..(Len(seq) - 1) :
        LET a == agg[seq[q]].first
            b == agg[seq[q + 1]].first
        IN  IF a = NoTs THEN b = NoTs /\ CodeRank(seq[q]) < CodeRank(seq[q + 1])
            ELSE \/ b = NoTs
                 \/ to_local(a) < to_local(b)
                 \/ /\ to_local(a) = to_local(b)
                    /\ a = b => CodeRank(seq[q]) < CodeRank(seq[q + 1])

\* C19: the rows of the alert report are in the chronological order of their first
\* occurrence, ascending, the records without first occurrence last and the records of
\* equal first occurrence by code, also when the timestamps of the log are of different
\* forms or UTC offsets.
C19_RowsChronological ==
    /\ probe.ran => Chronological(probe.agg, probe.rows)
    /\ probe.parsed => Chronological(probe.pagg, probe.items)

\* the occurrence, among occs, that gave the record of c its first occurrence
Supplier(agg, c, occs, fmts) == Min({ i \in occs : Governing(i, fmts) = agg[c].first })

\* C20: for every code of the report the message recorded is the message of the
\* occurrence that supplies the record's first-occurrence timestamp, in parse_alerts and
\* in run_alert_log, also when that occurrence has an empty message.
C20_MessageOfFirstOccurrence ==
    /\ probe.parsed =>
          \A c \in DOMAIN probe.pagg :
              probe.pagg[c].info = Log[Supplier(probe.pagg, c, Occurrences(c), {"T"})].info
    /\ probe.ran =>
          \A c \in DOMAIN probe.agg :
              probe.agg[c].info = Log[Supplier(probe.agg, c, InWindow(c), AllForms)].info

-----------------------------------------------------------------------------
(* Claims about the run, checked under Spec *)

StepOrder == << "cfg", "awr", "ts", "alert", "backup" >>

\* the run has ended
Finished == pc \in {"done", "aborted", "nodb"}

\* the steps of collection i that were executed to their end
StepsRun(i) == { steplog[k].step : k \in { j \in 1..Len(steplog) :
                     steplog[j].db = i /\ steplog[j].kind # "raised" } }

\* run_all has appended the rows of collection i
RowsBuilt(i) == i < di \/ (i = di /\ pc \in {"write", "done"})

SysRows(name) == SelectSeq(excel_rows, LAMBDA r : r.sys = name)

\* C1: every run over an input with at least one collection, whatever the steps'
\* failures, processes every collection and ends by writing summary_report.md and the
\* spreadsheet.
C1_EveryRunWritesReports ==
    (Finished /\ Len(db_dirs) >= 1) =>
        /\ \A i \in 1..Len(db_dirs) : StepsRun(i) = { StepOrder[c] : c \in 1..5 } /\ RowsBuilt(i)
        /\ F("", "summary_report.md") \in files
        /\ F("", "pm_summary.xlsx") \in files
        /\ sheet.written

TsEntry(i) == steplog[CHOOSE k \in 1..Len(steplog) : steplog[k].db = i /\ steplog[k].step = "ts"]

\* C3: for every processed collection there are exactly six rows, one per checklist
\* item, for each tablespace_<name>.txt file, under the name of the file's sub-database,
\* or six rows under the CDB name when there is no such file; the Configuration,
\* Performance, Alert log and Backup rows (and the Size/Growth row) have the same status,
\* severity and description in every sub-database of the collection.
C3_SixRowsPerSubDatabase ==
    \A i \in 1..Len(db_dirs) : RowsBuilt(i) =>
        LET stems == TsEntry(i).pdbs
            names == IF stems = << >> THEN << db_dirs[i] >>
                     ELSE [ j \in 1..Len(stems) |-> IF stems[j] # "" THEN stems[j] ELSE db_dirs[i] ]
            rs == SysRows(db_dirs[i])
        IN  /\ Len(rs) = 6 * Len(names)
            /\ \A j \in 1..Len(names) : \A c \in 1..6 :
                  LET r == rs[6 * (j - 1) + c] IN
                  /\ r.db = names[j]
                  /\ r.item = ChecklistItems[c]
                  /\ c # 4 => /\ r.status = rs[c].status
                              /\ r.severity = rs[c].severity
                              /\ r.desc = rs[c].desc

\* a collection with two tablespace files whose Tablespaces rows differ, and a
\* collection with none
C3_Witness ==
    /\ pc = "done"
    /\ \E i \in 1..Len(db_dirs) :
          /\ Len(TsEntry(i).pdbs) = 2
          /\ SysRows(db_dirs[i])[4].severity # SysRows(db_dirs[i])[10].severity
          /\ SysRows(db_dirs[i])[1].severity = SysRows(db_dirs[i])[7].severity
    /\ \E i \in 1..Len(db_dirs) : TsEntry(i).pdbs = << >> /\ Len(SysRows(db_dirs[i])) = 6

ItemIndex(item) == CHOOSE c \in 1..6 : ChecklistItems[c] = item

\* the ranges cover the rows 1..n one after the other
Partitions(ranges, n) ==
    /\ n = 0 <=> ranges = << >>
    /\ n > 0 => /\ ranges[1].r1 = 1
                /\ ranges[Len(ranges)].r2 = n
                /\ \A q \in 1..Len(ranges) : ranges[q].r1 <= ranges[q].r2
                /\ \A q \in 1..(Len(ranges) - 1) : ranges[q + 1].r1 = ranges[q].r2 + 1

\* C4: in the spreadsheet written the rows of one system name are contiguous, within a
\* system the rows of one sub-database are contiguous, and within a sub-database the rows
\* are in the order of the checklist; the ranges of the System Name column and those of
\* the Database column each partition the rows into exactly these runs, and no range of
\* the Database column crosses the boundary of a System Name range.
C4_SheetGroupedAndMerged ==
    sheet.written =>
        LET df == sheet.rows
            n == Len(df)
            same_db(a, b) == df[a].sys = df[b].sys /\ df[a].db = df[b].db
        IN  /\ n = Len(excel_rows)
            /\ \A a \in 1..n : \A c \in a..n : \A b \in a..c :
                  /\ df[a].sys = df[c].sys => df[b].sys = df[a].sys
                  /\ same_db(a, c) => same_db(a, b)
            /\ \A a \in 1..(n - 1) :
                  same_db(a, a + 1) => ItemIndex(df[a].item) <= ItemIndex(df[a + 1].item)
            /\ Partitions(sheet.sysmerge, n)
            /\ \A q \in 1..Len(sheet.sysmerge) :
                  LET g == sheet.sysmerge[q] IN
                  /\ \A a \in g.r1..g.r2 : df[a].sys = g.text
                  /\ g.r1 > 1 => df[g.r1 - 1].sys # g.text
                  /\ g.merged <=> g.r2 > g.r1
            /\ Partitions(sheet.dbmerge, n)
            /\ \A q \in 1..Len(sheet.dbmerge) :
                  LET g == sheet.dbmerge[q] IN
                  /\ \A a \in g.r1..g.r2 : df[a].db = g.text /\ same_db(a, g.r1)
                  /\ g.r1 > 1 => ~same_db(g.r1 - 1, g.r1)
                  /\ \E h \in 1..Len(sheet.sysmerge) :
                        sheet.sysmerge[h].r1 <= g.r1 /\ g.r2 <= sheet.sysmerge[h].r2

\* two systems written in another order than they were processed, the second starting
\* with the sub-database name the first ends with
C4_Witness ==
    /\ sheet.written /\ sheet.rows # excel_rows
    /\ Len(sheet.sysmerge) = 2 /\ Len(sheet.dbmerge) >= 3
    /\ \E a \in 1..(Len(sheet.rows) - 1) :
          sheet.rows[a].sys # sheet.rows[a + 1].sys /\ sheet.rows[a].db = sheet.rows[a + 1].db

SevLabels == { SEV_LABEL(n) : n \in 1..4 }

\* C5: every severity the five classifiers return, for any text, is 1, 2, 3 or 4, and
\* every row emitted has the status Normal exactly when its severity is 4 and Attention
\* otherwise.
C5_SeverityInRangeStatusFollows ==
    /\ Classed => /\ probe.sev \in 1..4
                  /\ probe.label = SEV_LABEL(probe.sev)
                  /\ probe.status = IF probe.sev = 4 THEN "Normal" ELSE "Attention"
    /\ cfg_sev \in 0..4 /\ awr_sev \in 0..4 /\ a_sev \in 0..4 /\ b_sev \in 0..4
    /\ \A k \in 1..Len(steplog) :
          steplog[k].kind = "raised" \/ steplog[k].step = "ts" \/ steplog[k].sev \in 1..4
    /\ \A k \in 1..Len(excel_rows) :
          /\ excel_rows[k].severity \in SevLabels
          /\ excel_rows[k].status = IF excel_rows[k].severity = SEV_LABEL(4) THEN "Normal"
                                    ELSE "Attention"
    /\ \A k \in 1..Len(sheet.rows) :
          sheet.rows[k].status = "Normal" <=> sheet.rows[k].severity = SEV_LABEL(4)

\* a spreadsheet with rows of severity 1, of severity 2 and of severity 4
C5_Witness ==
    /\ sheet.written
    /\ \A n \in {1, 2, 4} : \E k \in 1..Len(sheet.rows) :
          /\ sheet.rows[k].severity = SEV_LABEL(n)
          /\ sheet.rows[k].status = IF n = 4 THEN "Normal" ELSE "Attention"

\* C10: when the input a step requires is absent, the step yields a skipped marker
\* without raising, its checklist item gets severity 4, and all the other steps of the
\* same collection still run.
C10_SkippedStepIsNormalAndOthersRun ==
    \A k \in 1..Len(steplog) : steplog[k].kind = "skipped" =>
        LET i == steplog[k].db IN
        /\ steplog[k].step # "ts" => steplog[k].sev = 4
        /\ (steplog[k].step = "ts" /\ RowsBuilt(i)) =>
               \A r \in 1..Len(SysRows(db_dirs[i])) :
                  SysRows(db_dirs[i])[r].item = ChecklistItems[4] =>
                     SysRows(db_dirs[i])[r].severity = SEV_LABEL(4)
        /\ Finished => StepsRun(i) = { StepOrder[c] : c \in 1..5 }

-----------------------------------------------------------------------------
(* Claims about the checks of the helper modules, checked under SpecChecks *)

\* the collection time check_file uses and the backup times it reads
CollectionTime ==
    IF probe.override # None THEN probe.override
    ELSE IF probe.content.banner # None THEN probe.content.banner
    ELSE probe.content.mtime
BackupTimes == { probe.content.stamps[i] : i \in 1..Len(probe.content.stamps) } \ {None}
ClassedPass == Head(probe.line).w = PASS

\* C21: check_file classifies a log as pass exactly when the log has a backup timestamp
\* and age = max(0, collection time - latest backup time) is at most threshold_days days:
\* a collection time earlier than the latest backup gives age 0 and pass, an age of
\* exactly the threshold passes, and a log without backup timestamp is classified as fail.
C21_BackupAgeRule ==
    (probe.item = "bfile" /\ probe.done) =>
        /\ Head(probe.line).w \in {PASS, FAIL}
        /\ ClassedPass <=>
              /\ probe.content.readable
              /\ BackupTimes # {}
              /\ \A latest \in BackupTimes :
                    (\A t \in BackupTimes : t <= latest) =>
                        LET d == CollectionTime - latest
                            age == IF d < 0 THEN 0 ELSE d
                        IN  age <= probe.days * DayHours

\* a log collected twenty hours before its latest backup passes under a threshold of one day
C21_Witness ==
    /\ probe.item = "bfile" /\ probe.done /\ ClassedPass
    /\ probe.days = 1 /\ BackupTimes = {220} /\ CollectionTime = 200

-----------------------------------------------------------------------------
(* Claims about the discovery of the first level, checked under SpecChecks *)

Root == probe.root
ChildDirs == { i \in 1..Len(Root) : Root[i].is_dir }
\* the subdirectories of child i that can be seen
KidsOf(i) == IF Root[i].listable THEN Root[i].kids ELSE << >>
HasCdbChild == \E i \in ChildDirs : Root[i].pre \in {"CDB", "cdb", "Cdb"}
WrapperApplies ==
    \E i \in ChildDirs : ChildDirs = {i} /\ \E g \in 1..Len(KidsOf(i)) : KidsOf(i)[g]
HasMarkedChild == \E i \in ChildDirs : Root[i].markers
PmChildren == { i \in ChildDirs : Root[i].pre \in {"pm_", "PM_", "Pm_"} }
FirstOf(S) == CHOOSE i \in S : \A j \in S : i <= j

\* C22: find_first_level_used returns the result of the first of its five rules that
\* applies: the root when a child directory's name starts with CDB in any case; else the
\* single child when the wrapper rule applies (the root has one child directory and a
\* subdirectory of it has a marker); else the root when a child directory contains a
\* marker; else the first child directory whose name starts with pm_ in any case; else
\* the root.
C22_FirstApplicableRule ==
    (probe.item = "root" /\ probe.done) =>
        probe.level =
            IF HasCdbChild THEN 0
            ELSE IF WrapperApplies THEN FirstOf(ChildDirs)
            ELSE IF HasMarkedChild THEN 0
            ELSE IF PmChildren # {} THEN FirstOf(PmChildren)
            ELSE 0

\* a root where the marker rule wins over a pm_ directory: the root is returned
C22_Witness ==
    /\ probe.item = "root" /\ probe.done /\ probe.level = 0
    /\ PmChildren # {} /\ ~HasCdbChild /\ ~WrapperApplies /\ HasMarkedChild

\* C23: when the root's single child directory has a subdirectory that contains none of
\* the three markers, discovery does not descend by the wrapper rule: the result is the
\* one of the rules that follow it.
C23_WrapperNeedsEveryMarker ==
    (/\ probe.item = "root" /\ probe.done /\ ~HasCdbChild
     /\ \E i \in ChildDirs :
           ChildDirs = {i} /\ \E g \in 1..Len(KidsOf(i)) : ~KidsOf(i)[g]) =>
        probe.level =
            IF HasMarkedChild THEN 0
            ELSE IF PmChildren # {} THEN FirstOf(PmChildren)
            ELSE 0

-----------------------------------------------------------------------------
(* Claims about the files of a collection, checked under Spec *)

OutputNames == {"config_check.txt", "awr_analysis.txt", "tablespace_report.txt",
                "alert_report.csv", "backup_report.txt"}
\* run_all has left the steps of the d-th collection, by their end or by an exception
LeftCollection(d) ==
    d < di \/ (d = di /\ pc \notin {"cfg", "awr", "ts", "alert", "backup"})
FilesOf(d) == { f \in files : f.dir = db_dirs[d] }

\* C24: once run_all has left the steps of a collection, on whatever path through the
\* step runners, the collection's output directory holds config_check.txt,
\* awr_analysis.txt, tablespace_report.txt, alert_report.csv beginning with the header
\* line, and backup_report.txt, and at most three copied AWR reports besides.
C24_OutputFilesPresent ==
    \A d \in 1..Len(db_dirs) :
        LeftCollection(d) =>
            /\ \A n \in OutputNames :
                  \E f \in FilesOf(d) :
                      f.name = n /\ (n = "alert_report.csv" => f.head = AlertHeader)
            /\ Cardinality({ f \in FilesOf(d) : f.name \notin OutputNames }) <= 3

-----------------------------------------------------------------------------
(* Claims about the analysis of an AWR report, checked under SpecChecks *)

\* C25: no analysis function raises on malformed input: for every table the parsers
\* return, with cells that hold no number or no text (a PGA advisory table whose
\* current-size row has a non-numeric extra-MB cell, a thread-activity row whose
\* Statistic cell is not text, a top-events table whose DB CPU row has no %DB time), the
\* analysis returns a line and raises no exception.
C25_AnalysisNeverRaises ==
    (probe.item \in {"pga", "thread", "events"} /\ probe.done) => probe.kind # "raise"

-----------------------------------------------------------------------------
(* Claims about the configuration check, checked under SpecChecks *)

PathsIn(ws) == { ws[i] : i \in { j \in 1..Len(ws) : IsCtlPath(ws[j]) } }
\* the control-file paths to be found: those of the Controlfile section or, when it
\* yields none, those of the whole document
PathsPresent ==
    IF PathsIn(probe.content.section) # {} THEN PathsIn(probe.content.section)
    ELSE PathsIn(probe.content.section \o probe.content.rest)

\* C26: the control-file check reports redundancy whenever at least two distinct
\* control-file paths are present in the dump, be they found in the Controlfile section
\* or, when the section yields none, by the fallback scan of the whole document.
C26_TwoPathsAreRedundant ==
    (probe.item = "ctl" /\ probe.done /\ Cardinality(PathsPresent) >= 2) =>
        Head(probe.line).w = PASS

-----------------------------------------------------------------------------
(* Claims about the tablespace check, checked under SpecChecks *)

\* the tablespaces the printed line names, with the percentage it shows for each: a
\* name is the word before an opening parenthesis
FlaggedInLine ==
    LET line == probe.text[1]
        at == { i \in 1..Len(line) - 2 : line[i + 1].w = "(" }
        nth(k) == CHOOSE i \in at : Cardinality({ j \in at : j < i }) = k - 1
    IN  [ k \in 1..Cardinality(at) |-> [name |-> line[nth(k)].w, pct |-> line[nth(k) + 2].n] ]

\* C27: check_tablespace_free_space flags exactly the data rows whose PCT_FREE_OF_MAX
\* is a number strictly below 15 (14.99 is flagged, 15.00 is not); a row whose value is
\* no number is left out, the other rows are flagged as without it, and the check
\* prints its line.
C27_FlagsRowsBelowFifteen ==
    (probe.item = "tsfile" /\ probe.done) =>
        /\ Len(probe.text) = 1 /\ Head(probe.text[1]).w \in {PASS, FAIL}
        /\ FlaggedInLine =
              SelectSeq(probe.rows, LAMBDA r : r.pct # NotNum /\ r.pct < 15 * Scale)
        /\ Head(probe.text[1]).w = FAIL <=> FlaggedInLine # << >>

\* a report with a row of 14.99 behind a row whose value is no number: the first alone
\* is flagged
C27_Witness ==
    /\ probe.item = "tsfile" /\ probe.done
    /\ probe.rows = << [name |-> "SYSTEM", pct |-> NotNum], [name |-> "USERS", pct |-> 1499] >>
    /\ FlaggedInLine = << [name |-> "USERS", pct |-> 1499] >>

-----------------------------------------------------------------------------
(* Claims about the version comparison, checked under SpecChecks *)

UpToDate(line) == line = << T(PASS), T("Patches"), G(":"), T("Up to date") >>
\* the first two components of a dotted number, a missing minor component being 0
MajorMinor(parts) == << parts[1], IF Len(parts) >= 2 THEN parts[2] ELSE 0 >>

\* C28: the configuration check reports "up to date" exactly when the version found in
\* the dump and the first numeric token of the target string have the same (major,
\* minor) pair, whatever components and text follow; every other case is reported as
\* not up to date, and exchanging the two versions does not change the verdict.
C28_UpToDateIffSameMajorMinor ==
    (probe.item = "ver" /\ probe.done) =>
        /\ Head(probe.line).w \in {PASS, FAIL}
        /\ UpToDate(probe.line) <=>
              /\ probe.file # NoVer /\ probe.target.nums # NoVer
              /\ MajorMinor(probe.file) = MajorMinor(probe.target.nums)
        /\ (probe.file # NoVer /\ probe.target.nums # NoVer /\ Len(probe.target.nums) >= 2) =>
              (UpToDate(probe.line) <=>
                 UpToDate(patches_line(probe.target.nums,
                                       [nums |-> probe.file, tail |-> probe.target.tail])))

\* 19.27.0.0.0 against "19.27 (APR 2025)" is up to date
C28_Witness ==
    /\ probe.item = "ver" /\ probe.done /\ UpToDate(probe.line)
    /\ probe.file = << 19, 27, 0, 0, 0 >>
    /\ probe.target = [nums |-> << 19, 27 >>, tail |-> " (APR 2025)"]

-----------------------------------------------------------------------------
(* Claims about the capture of printed output, checked under SpecCapture *)

\* C29: a step runner that redirects sys.stdout leaves it naming the stream it named at
\* entry when it returns, whether the wrapped call returned, raised while the stream was
\* redirected, or raised before the redirection was installed; what run_all prints after
\* the step goes to that stream and not into a capture buffer.
C29_StdoutRestored ==
    (probe.item = "capture" /\ probe.at \in {"returned", "printed"}) =>
        /\ probe.stdout = probe.entry
        /\ probe.at = "printed" => probe.printed_to = probe.entry

\* run_awr has returned after analyze raised before the redirection was installed, and
\* run_all has printed to the stream of entry
C29_Witness ==
    /\ probe.item = "capture" /\ probe.at = "printed" /\ probe.printed_to = probe.entry
    /\ probe.runner = "run_awr" /\ probe.calls = << "raised before" >>

-----------------------------------------------------------------------------
(* Claims about the GUI, checked under SpecGui *)

\* the workers between their start and the end of their finally clause
Active == { w \in 1..Len(probe.workers) : probe.workers[w].at # "ended" }

\* C30: at most one worker runs mini_pm.run_all at a time; the Run button is disabled
\* from an accepted click until the worker ends; when the worker has ended, by return or
\* by exception, and the Run button is enabled again, sys.stdout and sys.stderr name
\* the streams they named before the run; and the Open Output Folder button is enabled
\* only after a run that ended without exception.
C30_OneWorkerAtATime ==
    probe.item = "gui" =>
        /\ Cardinality(Active) <= 1
        /\ Active # {} => probe.run_btn = DISABLED
        /\ probe.run_btn = NORMAL => (probe.stdout = "stdout" /\ probe.stderr = "stderr")
        /\ probe.open_btn = NORMAL =>
              \E w \in 1..Len(probe.workers) :
                  probe.workers[w].ok /\ probe.workers[w].at \in {"finally", "restored", "ended"}

\* a run that raised has ended after one that returned, the Run button is enabled again
\* and the streams are the ones of before the runs
C30_Witness ==
    /\ probe.item = "gui" /\ probe.ended = << TRUE, FALSE >>
    /\ probe.run_btn = NORMAL /\ probe.stdout = "stdout" /\ probe.stderr = "stderr"

====
